---------------------------- MODULE Spec2Model ----------------------------
(***************************************************************************)
(* A model of CMDkey's line editor (edit.c): the text buffer, the          *)
(* edit_line dispatch loop, the history, the definition lists, the         *)
(* keyboard macros, filename completion and the read entry point           *)
(* MyReadConsoleW with its expansion pipeline.                             *)
(*                                                                         *)
(* Text is a sequence of one-character strings.  The C code indexes text   *)
(* from 0; the operators below keep the C positions (0-based) and convert  *)
(* at the sequence access.  A C function that changes the globals is an    *)
(* operator from the program state (a record, see Cur) to the program      *)
(* state; its return value, when it has one, is left in the field rv.      *)
(***************************************************************************)
EXTENDS Integers, Sequences, FiniteSets, TLC

VARIABLES
  pc,          \* position of the program: which blocking call it sits in
  line,        \* line.txt[0 .. line.len-1]
  max,         \* capacity of line
  dispbeg,     \* dirty span, beginning
  dispend,     \* dirty span, end
  bell,        \* bell() was called during the last step
  ub,          \* the last step ran into undefined behaviour
  pos,         \* edit_line: cursor
  ovr,         \* edit_line: overwrite mode
  recall,      \* edit_line: auto-recall active
  cont_recall, \* edit_line: auto-recall stays active
  hist,        \* edit_line: position in the history (0 is &history)
  empty,       \* edit_line: empty-search state
  compl,       \* edit_line: completion state
  name,        \* edit_line: name/directory completion state
  done,        \* edit_line: termination function dispatched
  history,     \* the history ring, oldest first (history.next is history[1])
  histsize,    \* the counter histsize
  option,      \* the option record
  found_quote, \* get_string/find_files found a quote
  fname,       \* the candidate ring: [self |-> typed text, names |-> sorted
               \* candidates], or NoRing when fname is NULL
  fname_pos,   \* start of the file name in line
  path_pos,    \* start of the path in line
  fname_cnt,   \* number of candidates found
  dirchar,     \* directory indicator
  listing,     \* the entries of the current directory, in the order
               \* FindFirstFileW and FindNextFileW give them
  fnp,         \* edit_line: position in the ring (0 is fname itself)
  fnoq,        \* edit_line: the opening quote is in the line
  pq,          \* edit_line: the prefix needs a quote
  kbd,         \* the line came from the keyboard
  file,        \* the open command file: its unread lines
  cmdname,     \* the command file named for the next read request
  macro_stk,   \* the macro-execution stack, top first
  mcmd,        \* the queued multi-command text
  sym_head,    \* the symbol list, head first
  mac_head,    \* the macro list, head first
  assoc_head,  \* the association list, head first
  def_macro,   \* execute_defm is running
  where,       \* the callers waiting for edit_line to return, innermost first
  enabled,     \* this instance is active
  check_break, \* Control+Break counter
  keymap,      \* the function of every key of the model (*key)
  macro_head,  \* the keyboard macros, in the order of their keys
  recording,   \* edit_line: recording a keyboard macro
  rec_mac,     \* edit_line: key of the macro being recorded (0 is NULL)
  mac,         \* edit_line: key of the macro being played (0 is NULL)
  mac_pos,     \* edit_line: position of the playback
  kp,          \* process_keypad, its helper thread and the console input
  lst,         \* lstout, lstpipe, lastm and the streams of the list commands
  out,         \* what the last read request gave back
  call         \* the call made by the last step of a harness

vars ==
  <<pc, line, max, dispbeg, dispend, bell, ub, pos, ovr, recall,
    cont_recall, hist, empty, compl, name, done, history, histsize, option,
    found_quote, fname, fname_pos, path_pos, fname_cnt, dirchar, listing,
    fnp, fnoq, pq, kbd, file, cmdname, macro_stk, mcmd, sym_head, mac_head,
    assoc_head, def_macro, where, enabled, check_break, keymap, macro_head,
    recording, rec_mac, mac, mac_pos, kp, lst, out, call>>

----------------------------------------------------------------------------
(* Bounds of the model. *)

\* largest capacity max the buffer harness and the editor are run with
MaxCap == 3

\* longest string handed to copy_chars/insert_chars/replace_chars by the harness
MaxStr == 2

\* largest option.histsize
MaxHist == 2

----------------------------------------------------------------------------
(* Text helpers. *)

Min(a, b) == IF a < b THEN a ELSE b

Max(a, b) == IF a > b THEN a ELSE b

\* the C slice txt[from .. to-1]; a cell outside the text reads as "?"
Sub(txt, from, to) ==
  [i \in 1..(to - from) |->
     IF from + i >= 1 /\ from + i <= Len(txt) THEN txt[from + i] ELSE "?"]

\* the C read txt[i]; a cell outside the text reads as the indeterminate "?"
Chr(txt, i) == IF i >= 0 /\ i < Len(txt) THEN txt[i + 1] ELSE "?"

\* every text over alphabet of length at most n
TextsUpTo(alphabet, n) == UNION {[1..k -> alphabet] : k \in 0..n}

\* towlower on the letters the model uses
Lower(ch) ==
  CASE ch = "A" -> "a"
    [] ch = "B" -> "b"
    [] ch = "C" -> "c"
    [] ch = "D" -> "d"
    [] ch = "E" -> "e"
    [] ch = "F" -> "f"
    [] ch = "I" -> "i"
    [] ch = "K" -> "k"
    [] ch = "L" -> "l"
    [] ch = "M" -> "m"
    [] ch = "N" -> "n"
    [] ch = "O" -> "o"
    [] ch = "P" -> "p"
    [] ch = "R" -> "r"
    [] ch = "S" -> "s"
    [] ch = "T" -> "t"
    [] ch = "X" -> "x"
    [] OTHER -> ch

\* _wcsnicmp( a, b, n ) == 0, both texts holding at least n characters
EqNoCase(a, b, n) == \A i \in 1..n : Lower(Chr(a, i - 1)) = Lower(Chr(b, i - 1))

----------------------------------------------------------------------------
(* The values the globals and the locals of edit_line start with. *)

DefaultOption ==
  [overwrite |-> 0, auto_recall |-> 0, disable_macro |-> 0, no_slash |-> 0,
   empty_hist |-> 0, ignore_char |-> " ", min_length |-> 1, histsize |-> 2,
   disable_cmdkey |-> 0]

\* fname == NULL
NoRing == [self |-> <<>>, names |-> <<>>, null |-> TRUE]

\* file == NULL, *cmdname == 0
NoFile == [open |-> FALSE, lines |-> <<>>]

\* mcmd.txt == NULL
NoText == [txt |-> <<>>, null |-> TRUE]

NoOut == [status |-> "none", txt |-> <<>>, count |-> 0]

NoCall ==
  [op |-> "none", pos |-> 0, old |-> 0, str |-> <<>>, before |-> <<>>,
   mc |-> <<>>, cmd |-> <<>>, kbd |-> FALSE, fn |-> "none", ch |-> "",
   msg |-> "", nomem |-> {}]

\* the keys of the model, as positions in the key tables: two keys without
\* a function, and the keys of Record, Enter, Erase, DelLeft and CharLeft; 0
\* is the NULL that get_key returns for a character key
Keys == 1..7

\* the functions the keys have when the program starts
DefaultKeymap ==
  <<"Ignore", "Ignore", "Record", "Enter", "Erase", "DelLeft", "CharLeft">>

\* uChar.UnicodeChar of the keys: 0 for a key that makes no character
KeyCh == <<"NUL", "NUL", "NUL", "\r", "ESC", "BS", "NUL">>

\* the directory the program starts in: a directory and a program
Files ==
  <<[name |-> <<"a", "a", "a", "a">>, dir |-> TRUE],
    [name |-> <<"a", "b", ".", "e", "x", "e">>, dir |-> FALSE]>>

\* no Alt+keypad sequence is being read: main and helper are the positions
\* of process_keypad and of msgloop, queue says that the helper thread has a
\* message queue, posted counts the messages in it, sent tells what became
\* of the message of PostThreadMessage, hooked that KeyEvent is installed,
\* event is the state of the event object, input the records of the console
\* input buffer, held that the user holds Alt, left the keys the user may
\* still press, num the number and wch the character returned
NoKeypad ==
  [main |-> "idle", helper |-> "none", queue |-> FALSE, posted |-> 0,
   sent |-> "none", hooked |-> FALSE, event |-> "none", input |-> <<>>,
   held |-> FALSE, left |-> 0, num |-> 0,
   wch |-> [cp |-> "none", code |-> 0]]

\* no list command has run: out is lstout ("null" for NULL), pipe is lstpipe,
\* lastm is lastm (-1 for EOF); open is the stream that a redirection opened
\* and that has not been closed, std tells whether standard output is open;
\* opened is the stream that the redirection of the last list command
\* opened, closed the stream that its end_redirect passed to the function by
NoList ==
  [out |-> "null", pipe |-> FALSE, lastm |-> 0, open |-> "none",
   std |-> "open", opened |-> "none", closed |-> "none", by |-> "none"]

Start ==
  [pc |-> "idle", line |-> <<>>, max |-> 0, dispbeg |-> 0, dispend |-> 0,
   bell |-> FALSE, ub |-> FALSE, pos |-> 0, ovr |-> 0, recall |-> 0,
   cont_recall |-> 0, hist |-> 0, empty |-> 0, compl |-> 0, name |-> 0,
   done |-> FALSE, history |-> <<>>, histsize |-> 0,
   option |-> DefaultOption, found_quote |-> FALSE, fname |-> NoRing,
   fname_pos |-> 0, path_pos |-> 0, fname_cnt |-> 0, dirchar |-> "\\",
   listing |-> Files, fnp |-> 0, fnoq |-> FALSE, pq |-> FALSE,
   kbd |-> FALSE, file |-> NoFile, cmdname |-> NoFile, macro_stk |-> <<>>,
   mcmd |-> NoText, sym_head |-> <<>>, mac_head |-> <<>>,
   assoc_head |-> <<>>, def_macro |-> FALSE, where |-> <<>>,
   enabled |-> TRUE, check_break |-> 0, keymap |-> DefaultKeymap,
   macro_head |-> <<>>, recording |-> FALSE, rec_mac |-> 0, mac |-> 0,
   mac_pos |-> 0, kp |-> NoKeypad, lst |-> NoList, out |-> NoOut,
   call |-> NoCall]

----------------------------------------------------------------------------
(* The program state as a record, and its assignment to the variables. *)

Cur ==
  [pc |-> pc, line |-> line, max |-> max, dispbeg |-> dispbeg,
   dispend |-> dispend, bell |-> bell, ub |-> ub, pos |-> pos, ovr |-> ovr,
   recall |-> recall, cont_recall |-> cont_recall, hist |-> hist,
   empty |-> empty, compl |-> compl, name |-> name, done |-> done,
   history |-> history, histsize |-> histsize, option |-> option,
   found_quote |-> found_quote, fname |-> fname, fname_pos |-> fname_pos,
   path_pos |-> path_pos, fname_cnt |-> fname_cnt, dirchar |-> dirchar,
   listing |-> listing, fnp |-> fnp, fnoq |-> fnoq, pq |-> pq, kbd |-> kbd,
   file |-> file, cmdname |-> cmdname, macro_stk |-> macro_stk,
   mcmd |-> mcmd, sym_head |-> sym_head, mac_head |-> mac_head,
   assoc_head |-> assoc_head, def_macro |-> def_macro, where |-> where,
   enabled |-> enabled, check_break |-> check_break, keymap |-> keymap,
   macro_head |-> macro_head, recording |-> recording, rec_mac |-> rec_mac,
   mac |-> mac, mac_pos |-> mac_pos, kp |-> kp, lst |-> lst, out |-> out,
   call |-> call,
   rv |-> 0,
   cnt |-> 0, ch |-> "", fn |-> "Ignore", key |-> 0, fail |-> {}, junk |-> 0]

\* the variables hold the state s
Is(s) ==
  /\ pc = s.pc
  /\ line = s.line
  /\ max = s.max
  /\ dispbeg = s.dispbeg
  /\ dispend = s.dispend
  /\ bell = s.bell
  /\ ub = s.ub
  /\ pos = s.pos
  /\ ovr = s.ovr
  /\ recall = s.recall
  /\ cont_recall = s.cont_recall
  /\ hist = s.hist
  /\ empty = s.empty
  /\ compl = s.compl
  /\ name = s.name
  /\ done = s.done
  /\ history = s.history
  /\ histsize = s.histsize
  /\ option = s.option
  /\ found_quote = s.found_quote
  /\ fname = s.fname
  /\ fname_pos = s.fname_pos
  /\ path_pos = s.path_pos
  /\ fname_cnt = s.fname_cnt
  /\ dirchar = s.dirchar
  /\ listing = s.listing
  /\ fnp = s.fnp
  /\ fnoq = s.fnoq
  /\ pq = s.pq
  /\ kbd = s.kbd
  /\ file = s.file
  /\ cmdname = s.cmdname
  /\ macro_stk = s.macro_stk
  /\ mcmd = s.mcmd
  /\ sym_head = s.sym_head
  /\ mac_head = s.mac_head
  /\ assoc_head = s.assoc_head
  /\ def_macro = s.def_macro
  /\ where = s.where
  /\ enabled = s.enabled
  /\ check_break = s.check_break
  /\ keymap = s.keymap
  /\ macro_head = s.macro_head
  /\ recording = s.recording
  /\ rec_mac = s.rec_mac
  /\ mac = s.mac
  /\ mac_pos = s.mac_pos
  /\ kp = s.kp
  /\ lst = s.lst
  /\ out = s.out
  /\ call = s.call

Set(s) ==
  /\ pc' = s.pc
  /\ line' = s.line
  /\ max' = s.max
  /\ dispbeg' = s.dispbeg
  /\ dispend' = s.dispend
  /\ bell' = s.bell
  /\ ub' = s.ub
  /\ pos' = s.pos
  /\ ovr' = s.ovr
  /\ recall' = s.recall
  /\ cont_recall' = s.cont_recall
  /\ hist' = s.hist
  /\ empty' = s.empty
  /\ compl' = s.compl
  /\ name' = s.name
  /\ done' = s.done
  /\ history' = s.history
  /\ histsize' = s.histsize
  /\ option' = s.option
  /\ found_quote' = s.found_quote
  /\ fname' = s.fname
  /\ fname_pos' = s.fname_pos
  /\ path_pos' = s.path_pos
  /\ fname_cnt' = s.fname_cnt
  /\ dirchar' = s.dirchar
  /\ listing' = s.listing
  /\ fnp' = s.fnp
  /\ fnoq' = s.fnoq
  /\ pq' = s.pq
  /\ kbd' = s.kbd
  /\ file' = s.file
  /\ cmdname' = s.cmdname
  /\ macro_stk' = s.macro_stk
  /\ mcmd' = s.mcmd
  /\ sym_head' = s.sym_head
  /\ mac_head' = s.mac_head
  /\ assoc_head' = s.assoc_head
  /\ def_macro' = s.def_macro
  /\ where' = s.where
  /\ enabled' = s.enabled
  /\ check_break' = s.check_break
  /\ keymap' = s.keymap
  /\ macro_head' = s.macro_head
  /\ recording' = s.recording
  /\ rec_mac' = s.rec_mac
  /\ mac' = s.mac
  /\ mac_pos' = s.mac_pos
  /\ kp' = s.kp
  /\ lst' = s.lst
  /\ out' = s.out
  /\ call' = s.call

----------------------------------------------------------------------------
(* Line manipulation. *)

set_display_marks(s, beg, end) ==
  [s EXCEPT !.dispbeg = Min(beg, @), !.dispend = Max(end, @)]

\* bell(): the model records that the bell rang
ring(s) == [s EXCEPT !.bell = TRUE]

copy_chars(s, str) ==
  LET s1  == set_display_marks(s, 0, Len(s.line))
      s2  == IF Len(str) > s.max THEN ring(s1) ELSE s1
      cnt == Min(Len(str), s.max)
      s3  == [s2 EXCEPT !.line = Sub(str, 0, cnt)]
  IN  set_display_marks(s3, 0, cnt)

\* remove_chars without its call of set_display_marks
remove_unmarked(s, p, cnt) ==
  IF p + cnt > Len(s.line)
    THEN [s EXCEPT !.ub = TRUE]
    ELSE [s EXCEPT !.line = Sub(@, 0, p) \o Sub(@, p + cnt, Len(@))]

\* memcpy with a negative count (pos + cnt > line.len) is undefined behaviour
remove_chars(s, p, cnt) ==
  IF p + cnt > Len(s.line)
    THEN [s EXCEPT !.ub = TRUE]
    ELSE LET s1 == set_display_marks(s, p, Len(s.line))
         IN  [s1 EXCEPT !.line = Sub(@, 0, p) \o Sub(@, p + cnt, Len(@))]

\* insert_chars without its capacity test
insert_unchecked(s, p, str) ==
  set_display_marks([s EXCEPT !.line = Sub(@, 0, p) \o str \o Sub(@, p, Len(@))],
                    p, Len(s.line) + Len(str))

\* memmove with a negative count (pos > line.len) is undefined behaviour
insert_chars(s, p, str) ==
  LET over == Len(s.line) + Len(str) > s.max
      s1   == IF over THEN ring(s) ELSE s
      cnt  == IF over THEN s.max - Len(s.line) ELSE Len(str)
  IN  IF p > Len(s.line) \/ cnt < 0
        THEN [s1 EXCEPT !.ub = TRUE]
        ELSE LET s2 == [s1 EXCEPT !.line = Sub(@, 0, p) \o Sub(str, 0, cnt)
                                            \o Sub(@, p, Len(@))]
             IN  set_display_marks(s2, p, Len(s2.line))

\* the memcpy over line.txt[p .. p+n-1]; cells past line.len are not part of
\* the text, cells past the buffer (max + 2 characters) are out of bounds
overwrite(s, p, str) ==
  IF p + Len(str) > s.max + 2
    THEN [s EXCEPT !.ub = TRUE]
    ELSE [s EXCEPT !.line =
            [i \in 1..Len(@) |->
               IF i > p /\ i <= p + Len(str) THEN str[i - p] ELSE @[i]]]

replace_chars(s, p, old, str) ==
  LET cnt == Len(str)
  IN  IF old >= cnt
        THEN LET s1 == set_display_marks(s, p, p + cnt)
                 s2 == overwrite(s1, p, str)
             IN  IF old # cnt THEN remove_chars(s2, p + cnt, old - cnt) ELSE s2
        ELSE LET s1 == set_display_marks(s, p, p + old)
                 s2 == overwrite(s1, p, Sub(str, 0, old))
             IN  insert_chars(s2, p + old, Sub(str, old, cnt))

----------------------------------------------------------------------------
(* Utility. *)

CMDSEP == "^S"

ESCAPE == "^"

VARIABLE_CH == "%"

Letters == {"a", "b", "c", "d", "e", "f", "h", "k", "l", "m", "r", "s", "t", "x",
            "y", "z", "A", "B", "D", "M", "X"}

Digits == {"0", "1", "2", "3", "4", "5", "6", "7", "8", "9"}

isword(ch) == ch \in Letters \cup Digits \cup {"_"}

isblank(ch) == ch \in {" ", "\t"}

INVALID_FNAME == {"=", ",", ";", "+", "<", "|", ">", "&", "@"}

\* (the backquote of the C string cannot be written in a TLA+ string; no text of
\* the model holds one)
QUOTE_FNAME == {" ", "&", "(", ")", "[", "]", "{", "}", "^", "=", ";", "!", "%",
                "'", "+", ",", "~"}

DEF_TERM == {" ", "\t", "<", "|", ">", "/"}

\* line.txt[beg] <= ' ': the blank and the control characters
IsCtlOrSpace(ch) == ch \in {" ", "\t", CMDSEP}

\* the character tests of the scanning loops
IsClass(class, ch) ==
  CASE class = "blank" -> isblank(ch)
    [] class = "word" -> isword(ch)
    [] class = "delim" -> ch \in DEF_TERM

\* the first position from p on whose test gives want, or the length of txt
ScanTo(txt, p, class, want) ==
  LET hits == {i \in p..(Len(txt) - 1) : IsClass(class, Chr(txt, i)) = want}
  IN  IF p >= Len(txt) THEN p
      ELSE IF hits = {} THEN Len(txt)
      ELSE CHOOSE i \in hits : \A j \in hits : i <= j

skip_blank(s, p) == ScanTo(s.line, p, "blank", FALSE)

skip_nonblank(s, p) == ScanTo(s.line, p, "blank", TRUE)

skip_nondelim(s, p) == ScanTo(s.line, p, "delim", TRUE)

\* the number of consecutive backslashes that end just before position p
RECURSIVE Backslashes(_, _)
Backslashes(txt, p) ==
  IF p >= 1 /\ Chr(txt, p - 1) = "\\" THEN 1 + Backslashes(txt, p - 1) ELSE 0

is_quote(s, p) ==
  /\ p >= 0
  /\ p < Len(s.line)
  /\ Chr(s.line, p) = "\""
  /\ Backslashes(s.line, p) % 2 = 0

quote_needed(str, cnt) == \E i \in 0..(cnt - 1) : Chr(str, i) \in QUOTE_FNAME

\* the body of get_string's for loop from position p on; q is quote, cq is -1
\* for ~0; the result holds the state, the final pos and the flags
RECURSIVE get_string_loop(_, _, _, _, _, _, _)
get_string_loop(s, start, p, q, oq, cq, keep) ==
  IF p >= Len(s.line)
    THEN [s |-> s, pos |-> p, oq |-> oq, cq |-> cq]
  ELSE IF q
    THEN IF is_quote(s, p)
           THEN IF keep
                  THEN get_string_loop(s, start, p + 1, FALSE, oq, cq, keep)
                  ELSE IF cq # -1
                    THEN get_string_loop(remove_chars(s, cq, 1), start, p,
                                         FALSE, oq, p - 1, keep)
                    ELSE get_string_loop(s, start, p + 1, FALSE, oq, p, keep)
           ELSE get_string_loop(s, start, p + 1, q, oq, cq, keep)
  ELSE IF is_quote(s, p)
    THEN LET s1 == [s EXCEPT !.found_quote = TRUE]
         IN  IF keep
               THEN get_string_loop(s1, start, p + 1, TRUE, oq, cq, keep)
             ELSE IF oq
               THEN get_string_loop(remove_chars(s1, p, 1), start, p, TRUE,
                                    oq, cq, keep)
             ELSE IF p # start
               THEN LET s2 == [s1 EXCEPT !.line =
                                 Sub(@, 0, start) \o <<"\"">> \o Sub(@, start, p)
                                   \o Sub(@, p + 1, Len(@))]
                    IN  get_string_loop(set_display_marks(s2, start, p + 1),
                                        start, p + 1, TRUE, TRUE, cq, keep)
               ELSE get_string_loop(s1, start, p + 1, TRUE, TRUE, cq, keep)
  ELSE IF isblank(Chr(s.line, p))
    THEN [s |-> s, pos |-> p, oq |-> oq, cq |-> cq]
  ELSE get_string_loop(s, start, p + 1, q, oq, cq, keep)

\* the end of get_string: r is what the loop left; rv is the start of the
\* string, cnt its length
get_string_end(r, start, keep) ==
  LET st1 == IF ~keep /\ r.oq THEN start + 1 ELSE start
      p1  == IF ~keep /\ r.cq # -1 THEN r.pos - 1 ELSE r.pos
      s1  == IF ~keep /\ r.cq # -1 /\ r.cq # p1
               THEN set_display_marks(
                      [r.s EXCEPT !.line =
                         Sub(@, 0, r.cq) \o Sub(@, r.cq + 1, p1 + 1)
                           \o <<"\"">> \o Sub(@, p1 + 1, Len(@))],
                      r.cq, p1 + 1)
               ELSE r.s
  IN  [s1 EXCEPT !.rv = st1, !.cnt = p1 - st1]

get_string(s, p, keep) ==
  get_string_end(get_string_loop([s EXCEPT !.found_quote = FALSE],
                                 skip_blank(s, p), skip_blank(s, p),
                                 FALSE, FALSE, -1, keep),
                 skip_blank(s, p), keep)

----------------------------------------------------------------------------
(* History.  A PHistory is an index into history; 0 is the sentinel &history. *)

HNext(s, h) == IF h >= Len(s.history) THEN 0 ELSE h + 1

HPrev(s, h) == IF h = 0 THEN Len(s.history) ELSE h - 1

HLine(s, h) == IF h = 0 THEN <<>> ELSE s.history[h]

\* removing the sentinel itself frees a static object and unlinks it
\* the kinds of allocation that the model lets fail: a history entry, a
\* definition record and a line of a definition.  s.fail holds the kinds for
\* which malloc returns NULL in the step, call.nomem those that did fail
Allocs == {"history", "define", "line"}

nomem(s, kind) == [s EXCEPT !.call.nomem = @ \cup {kind}]

remove_from_history(s, h) ==
  IF h = 0
    THEN [s EXCEPT !.ub = TRUE, !.histsize = @ - 1]
    ELSE [s EXCEPT !.history = Sub(@, 0, h - 1) \o Sub(@, h, Len(@)),
                   !.histsize = @ - 1]

\* add_to_history without the search for the line
add_duplicate(s) ==
  IF Len(s.line) < s.option.min_length
    THEN s
    ELSE LET s1 == IF s.option.histsize # 0 /\ s.histsize = s.option.histsize
                     THEN remove_from_history(s, HNext(s, 0))
                     ELSE s
         IN  [s1 EXCEPT !.history = Append(@, s.line), !.histsize = @ + 1]

\* add_to_history without the removal of the first line
add_unbounded(s) ==
  IF Len(s.line) < s.option.min_length
    THEN s
  ELSE IF \E h \in 1..Len(s.history) : s.history[h] = s.line
    THEN LET h == CHOOSE i \in 1..Len(s.history) : s.history[i] = s.line
         IN  [s EXCEPT !.history =
                Sub(@, 0, h - 1) \o Sub(@, h, Len(@)) \o <<s.line>>]
    ELSE [s EXCEPT !.history = Append(@, s.line), !.histsize = @ + 1]

add_to_history(s) ==
  IF Len(s.line) < s.option.min_length
    THEN s
  ELSE IF \E h \in 1..Len(s.history) : s.history[h] = s.line
    THEN LET h == CHOOSE i \in 1..Len(s.history) : s.history[i] = s.line
         IN  [s EXCEPT !.history =
                Sub(@, 0, h - 1) \o Sub(@, h, Len(@)) \o <<s.line>>]
    ELSE LET s1 == IF s.option.histsize # 0 /\ s.histsize = s.option.histsize
                     THEN remove_from_history(s, HNext(s, 0))
                     ELSE s
         IN  IF "history" \in s.fail THEN nomem(s1, "history")
             ELSE [s1 EXCEPT !.history = Append(@, s.line), !.histsize = @ + 1]

\* the do-while of search_history, h being the entry examined last
RECURSIVE search_history_loop(_, _, _, _, _)
search_history_loop(s, from, h0, len, back) ==
  LET h   == IF back THEN HPrev(s, h0) ELSE HNext(s, h0)
      fnd == Len(HLine(s, h)) >= len /\ EqNoCase(HLine(s, h), s.line, len)
  IN  IF fnd THEN h
      ELSE IF h = from THEN -1
      ELSE search_history_loop(s, from, h, len, back)

\* -1 is NULL
search_history(s, from, len, back) == search_history_loop(s, from, from, len, back)

----------------------------------------------------------------------------
(* edit_line: the cases of the function switch.  The character and function *)
(* read (chfn) are the fields ch and fn of the state.                        *)

NUL == "NUL"

\* the last position from p down to 0 whose test gives want, or -1
ScanBack(txt, p, class, want) ==
  LET hits == {i \in 0..p : IsClass(class, Chr(txt, i)) = want}
  IN  IF hits = {} THEN -1 ELSE CHOOSE i \in hits : \A j \in hits : i >= j

\* line.len = p: a cut, or cells past the old end becoming part of the line
set_len(s, p) ==
  [s EXCEPT !.line = [i \in 1..p |-> Chr(@, i - 1)]]

\* line.txt[p] = ch
poke(s, p, ch) == overwrite(s, p, <<ch>>)

fn_Default(s) == IF s.ch = NUL THEN [ring(s) EXCEPT !.fn = "Ignore"] ELSE s

fn_Quote(s, qch) == fn_Default([s EXCEPT !.ch = qch, !.fn = "Default"])

\* the cursor moves to the left whatever its position
char_left_free(s) == [s EXCEPT !.pos = @ - 1]

fn_CharLeft(s) == IF s.pos > 0 THEN [s EXCEPT !.pos = @ - 1] ELSE s

fn_CharRight(s) == IF s.pos < Len(s.line) THEN [s EXCEPT !.pos = @ + 1] ELSE s

fn_WordLeft(s) ==
  IF s.pos > 0
    THEN LET p1 == ScanBack(s.line, s.pos - 1, "word", TRUE)
             p2 == ScanBack(s.line, p1, "word", FALSE) + 1
             s1 == [s EXCEPT !.pos = p2]
         IN  IF s.fn = "DelWordLeft" THEN remove_chars(s1, p2, s.pos - p2) ELSE s1
    ELSE s

fn_WordRight(s) ==
  IF s.pos < Len(s.line)
    THEN LET p1 == ScanTo(s.line, s.pos, "word", FALSE)
             p2 == ScanTo(s.line, p1, "word", TRUE)
         IN  IF s.fn = "DelWordRight"
               THEN remove_chars(s, s.pos, p2 - s.pos)
               ELSE [s EXCEPT !.pos = p2]
    ELSE s

fn_StringLeft(s) ==
  IF s.pos > 0
    THEN LET p1 == ScanBack(s.line, s.pos - 1, "blank", FALSE)
         IN  [s EXCEPT !.pos = ScanBack(s.line, p1, "blank", TRUE) + 1]
    ELSE s

fn_StringRight(s) == [s EXCEPT !.pos = skip_blank(s, skip_nonblank(s, s.pos))]

fn_BegLine(s) == [s EXCEPT !.pos = 0]

fn_EndLine(s) == [s EXCEPT !.pos = Len(s.line)]

fn_DelLeft(s) ==
  [(IF s.pos > 0 THEN remove_chars([s EXCEPT !.pos = @ - 1], s.pos - 1, 1) ELSE s)
     EXCEPT !.cont_recall = 1]

fn_DelRight(s) ==
  [(IF s.pos < Len(s.line) THEN remove_chars(s, s.pos, 1) ELSE s)
     EXCEPT !.cont_recall = 1]

\* the test of DelArg's do-while; g is the state get_string left, with rv
\* its start; cnt becomes end
RECURSIVE DelArgLoop(_, _)
DelArgTest(s, g) ==
  LET e1 == skip_blank(g, g.rv + g.cnt)
  IN  IF e1 <= s.pos /\ e1 < Len(g.line)
        THEN DelArgLoop(g, e1)
        ELSE [g EXCEPT !.cnt = e1]

DelArgLoop(s, end) == DelArgTest(s, get_string(s, end, TRUE))

DelArgCut(g) == remove_chars([g EXCEPT !.pos = g.rv], g.rv, g.cnt - g.rv)

fn_DelArg(s) == DelArgCut(DelArgLoop(s, 0))

fn_DelBegLine(s) == [remove_chars(s, 0, s.pos) EXCEPT !.pos = 0]

fn_DelEndLine(s) == set_len(set_display_marks(s, s.pos, Len(s.line)), s.pos)

fn_Erase(s) ==
  [set_len(set_display_marks(s, 0, Len(s.line)), 0)
     EXCEPT !.pos = 0, !.cont_recall = 1, !.hist = 0]

fn_StoreErase(s) == fn_Erase([add_to_history(s) EXCEPT !.hist = 0])

\* Enter without add_to_history
enter_unstored(s) == [s EXCEPT !.done = TRUE]

fn_Enter(s) == [add_to_history(s) EXCEPT !.done = TRUE]

fn_DelEndExec(s) == fn_Enter(fn_DelEndLine(s))

\* Wipe taken for Ignore
wipe_ignored(s) == s

fn_Wipe(s) == [s EXCEPT !.done = TRUE]

fn_Transpose(s) ==
  IF Len(s.line) >= 2
    THEN LET start == IF s.pos = 0 THEN 0
                      ELSE IF s.pos = Len(s.line) THEN s.pos - 2 ELSE s.pos - 1
             c0    == Chr(s.line, start)
             c1    == Chr(s.line, start + 1)
             s1    == poke(poke([s EXCEPT !.ch = c0], start, c1), start + 1, c0)
         IN  set_display_marks(s1, start, start + 2)
    ELSE s

\* the label hist_line
hist_line(s) ==
  LET s1 == copy_chars(s, HLine(s, s.hist))
  IN  IF (s.fn # "SearchBack" /\ s.fn # "SearchForw") \/ (s.empty \div 2) % 2 = 1
        THEN [s1 EXCEPT !.pos = Len(s1.line)]
        ELSE s1

fn_FirstLine(s) == hist_line([s EXCEPT !.hist = HNext(s, 0)])

fn_LastLine(s) == hist_line([s EXCEPT !.hist = HPrev(s, 0)])

fn_PrevLine(s) == hist_line([s EXCEPT !.hist = HPrev(s, s.hist)])

fn_NextLine(s) == hist_line([s EXCEPT !.hist = HNext(s, s.hist)])

\* empty |= 2 on the values 0..3
Or2(n) == IF (n \div 2) % 2 = 1 THEN n ELSE n + 2

fn_Search(s) ==
  LET e1 == Or2(s.empty)
      s1 == IF s.option.empty_hist = 1
              THEN IF e1 = 2 /\ Len(s.line) # 0
                     THEN [s EXCEPT !.empty = 0]
                     ELSE [s EXCEPT !.empty = e1, !.pos = 0]
              ELSE s
      sh == search_history(s1, s1.hist, s1.pos, s.fn = "SearchBack")
  IN  IF sh = -1
        THEN ring(s1)
        ELSE hist_line([s1 EXCEPT !.hist = sh,
                                  !.recall = s.option.auto_recall,
                                  !.cont_recall = 1])

fn_CmdSep(s) == [s EXCEPT !.ch = CMDSEP, !.fn = "Default"]

fn_AutoRecall(s) ==
  LET a == 1 - s.option.auto_recall
  IN  [s EXCEPT !.option.auto_recall = a, !.recall = a, !.cont_recall = 1]

fn_MacroToggle(s) == [s EXCEPT !.option.disable_macro = 1 - @]

fn_InsOvr(s) == [s EXCEPT !.ovr = 1 - @]

\* the insertion or overwrite of a literal character after the switch
default_char(s) ==
  LET s1 == IF s.ovr = 1 \/ s.recall = 1
              THEN IF s.pos # s.max
                     THEN LET m == set_display_marks(s, s.pos, s.pos + 1)
                          IN  IF s.pos = Len(s.line)
                                THEN set_len(m, Len(s.line) + 1)
                                ELSE m
                     ELSE s
              ELSE IF Len(s.line) < s.max
                THEN IF s.pos > Len(s.line)
                       THEN [s EXCEPT !.ub = TRUE]
                       ELSE set_display_marks(
                              [s EXCEPT !.line = Sub(@, 0, s.pos) \o <<"?">>
                                                   \o Sub(@, s.pos, Len(@))],
                              s.pos, Len(s.line) + 1)
                ELSE s
  IN  IF s1.dispend # 0
        THEN LET s2 == [poke(s1, s.pos, s.ch) EXCEPT !.pos = @ + 1]
             IN  IF s2.recall = 1
                   THEN LET sh == search_history(s2, HNext(s2, s2.hist),
                                                 s2.pos, TRUE)
                        IN  IF sh = -1
                              THEN set_len(set_display_marks(s2, s2.pos,
                                                             Len(s2.line)),
                                           s2.pos)
                              ELSE [copy_chars([s2 EXCEPT !.hist = sh],
                                               HLine(s2, sh))
                                      EXCEPT !.cont_recall = 1]
                   ELSE s2
        ELSE ring(s1)

----------------------------------------------------------------------------
(* Definitions.  A list (sym_head, mac_head, assoc_head) is a sequence of   *)
(* [name, lines], head first; head names the list.  A frame of macro_stk is *)
(* [name |-> the invoking line, owner |-> the macro whose lines it walks,   *)
(* rest |-> the lines from macro_stk->line on, live |-> those lines have    *)
(* not been freed].                                                         *)

\* txt without its element number i (1-based)
Without(txt, i) == Sub(txt, 0, i - 1) \o Sub(txt, i, Len(txt))

\* the least element of a nonempty set of numbers
Least(S) == CHOOSE i \in S : \A j \in S : i <= j

add_define(s, head, p, cnt) ==
  [s EXCEPT ![head] = <<[name |-> Sub(s.line, p, p + cnt),
                         lines |-> <<>>]>> \o @]

\* the entries of a list that find_define's test accepts for txt
Matches(list, txt) ==
  {i \in 1..Len(list) :
     Len(list[i].name) = Len(txt) /\ EqNoCase(list[i].name, txt, Len(txt))}

\* a lookup that exchanges the definition found and the head of the list
find_swap(s, head, p, cnt) ==
  LET hits == Matches(s[head], Sub(s.line, p, p + cnt))
  IN  IF hits = {}
        THEN [s EXCEPT !.rv = 0]
        ELSE [s EXCEPT !.rv = 1,
                       ![head] = [j \in 1..Len(s[head]) |->
                                    IF j = 1 THEN s[head][Least(hits)]
                                    ELSE IF j = Least(hits) THEN s[head][1]
                                    ELSE s[head][j]]]

\* rv is 1 when the definition was found; it is then the head of the list
find_define(s, head, p, cnt) ==
  LET hits == Matches(s[head], Sub(s.line, p, p + cnt))
  IN  IF hits = {}
        THEN [s EXCEPT !.rv = 0]
        ELSE [s EXCEPT !.rv = 1,
                       ![head] = <<@[Least(hits)]>> \o Without(@, Least(hits))]

\* free_linelist on the lines of the macro called owner: the frames that
\* walk those lines are left pointing at freed memory
free_linelist(s, head, owner) ==
  IF head = "mac_head"
    THEN [s EXCEPT !.macro_stk =
            [i \in 1..Len(@) |->
               IF @[i].owner = owner THEN [@[i] EXCEPT !.live = FALSE]
                                     ELSE @[i]]]
    ELSE s

\* an empty list makes d a null pointer
del_define(s, head) ==
  IF s[head] = <<>>
    THEN [s EXCEPT !.ub = TRUE]
    ELSE [free_linelist(s, head, s[head][1].name) EXCEPT ![head] = Tail(@)]

\* the loop of delete_define from position p on
RECURSIVE delete_define(_, _, _)
delete_found(s, head, end) ==
  delete_define(IF s.rv = 1 THEN del_define(s, head) ELSE s, head,
                skip_blank(s, end))

delete_define(s, head, p) ==
  IF p < Len(s.line)
    THEN delete_found(find_define(s, head, p, skip_nonblank(s, p) - p),
                      head, skip_nonblank(s, p))
    ELSE s

RECURSIVE reset_define(_, _)
reset_define(s, head) ==
  IF s[head] = <<>> THEN s ELSE reset_define(del_define(s, head), head)

\* the text add_line copies
add_line(s, p) == Sub(s.line, p, Len(s.line))

----------------------------------------------------------------------------
(* Line input and output. *)

\* the argument unq of un_escape: a set of characters, or NULL
NULL == {"NULL"}

VAR_ESCAPE == {"%", "^"}

ARG_ESCAPE == {"%", "*", "^"}

\* does txt hold the character ch (the memchr tests)
Holds(txt, ch) == \E i \in 1..Len(txt) : txt[i] = ch

RECURSIVE un_escape_loop(_, _, _, _)
un_escape_loop(s, p, quote, unq) ==
  IF p >= Len(s.line) THEN s
  ELSE IF quote
    THEN IF is_quote(s, p) THEN un_escape_loop(s, p + 1, FALSE, unq)
         ELSE IF /\ unq # NULL
                 /\ Chr(s.line, p) = ESCAPE
                 /\ p + 1 < Len(s.line)
                 /\ Chr(s.line, p + 1) \in unq
           THEN un_escape_loop(remove_chars(s, p, 1), p + 1, TRUE, unq)
         ELSE un_escape_loop(s, p + 1, TRUE, unq)
  ELSE IF is_quote(s, p) THEN un_escape_loop(s, p + 1, TRUE, unq)
  ELSE IF unq = NULL /\ Chr(s.line, p) = ESCAPE /\ p + 1 < Len(s.line)
    THEN un_escape_loop(remove_chars(s, p, 1), p + 1, FALSE, unq)
  ELSE un_escape_loop(s, p + 1, FALSE, unq)

un_escape(s, unq) ==
  IF Holds(s.line, ESCAPE) THEN un_escape_loop(s, 0, FALSE, unq) ELSE s

pop_macro(s) ==
  IF s.macro_stk # <<>> THEN [s EXCEPT !.macro_stk = Tail(@)] ELSE s

DigitSeq == <<"0", "1", "2", "3", "4", "5", "6", "7", "8", "9">>

\* line.txt[pos] - '0'
DigitVal(ch) == (CHOOSE i \in 1..10 : DigitSeq[i] = ch) - 1

\* the do-while of get_macro_line that finds argument argnum in the frame's
\* copy of the invoking line (sn is the state with that copy as the line);
\* rv is arg, cnt its length
RECURSIVE arg_loop(_, _, _, _)
arg_next(g, argnum) ==
  IF argnum = 1 THEN g ELSE arg_loop(g, g.rv, g.cnt, argnum - 1)

arg_loop(sn, arg, cnt, argnum) == arg_next(get_string(sn, arg + cnt, TRUE), argnum)

\* the replacement of %n, %* or %n* whose digit or star is at p; g is what
\* arg_loop left
RECURSIVE macro_scan(_, _)
macro_subst(s, g, p) ==
  LET args  == s.macro_stk[1].name
      star2 == /\ Chr(s.line, p) # "*"
               /\ p + 1 < Len(s.line)
               /\ Chr(s.line, p + 1) = "*"
      p1    == IF star2 THEN p + 1 ELSE p
      var   == IF star2 THEN 3 ELSE 2
      cnt   == IF Chr(s.line, p1) = "*" THEN Len(args) - g.rv ELSE g.cnt
  IN  macro_scan(replace_chars([s EXCEPT !.found_quote = g.found_quote],
                               p1 - var + 1, var,
                               Sub(args, g.rv, g.rv + cnt)),
                 p1 + 1)

\* the for loop of get_macro_line from position p on
macro_scan(s, p) ==
  IF p >= Len(s.line) THEN s
  ELSE IF Chr(s.line, p) = ESCAPE THEN macro_scan(s, p + 2)
  ELSE IF /\ Chr(s.line, p) = VARIABLE_CH
          /\ p + 1 < Len(s.line)
          /\ Chr(s.line, p + 1) \in {"*"} \cup Digits
    THEN macro_subst(s,
                     arg_loop([s EXCEPT !.line = s.macro_stk[1].name], 0, 0,
                              IF Chr(s.line, p + 1) = "*"
                                THEN 2
                                ELSE DigitVal(Chr(s.line, p + 1)) + 1),
                     p + 1)
  ELSE macro_scan(s, p + 1)

\* macro_stk->line = macro_stk->line->next, and the pop after the last line
macro_advance(s) ==
  IF Len(s.macro_stk[1].rest) <= 1
    THEN pop_macro(s)
    ELSE [s EXCEPT !.macro_stk[1].rest = Tail(@)]

\* a frame whose lines were freed reads what the freed memory holds now:
\* the old lines when freed.kept, the lines freed.rest otherwise; a frame
\* without lines is a null pointer
\* call.str records the lines of definitions that are read
macro_text(s) ==
  macro_advance(
    un_escape(macro_scan(copy_chars([s EXCEPT !.call.str =
                                               Append(@, s.macro_stk[1].rest[1])],
                                    s.macro_stk[1].rest[1]), 0),
              ARG_ESCAPE))

get_macro_line(s, freed) ==
  IF s.macro_stk[1].live
    THEN IF s.macro_stk[1].rest = <<>>
           THEN [s EXCEPT !.ub = TRUE]
           ELSE macro_text(s)
    ELSE macro_text([s EXCEPT !.ub = TRUE,
                              !.macro_stk[1].rest =
                                 IF freed.kept /\ @ # <<>> THEN @ ELSE freed.rest])

RECURSIVE multi_cmd_loop(_, _, _)
multi_cmd_loop(s, p, quote) ==
  IF p >= Len(s.line) THEN s
  ELSE IF quote
    THEN multi_cmd_loop(s, p + 1, Chr(s.line, p) # "\"")
  ELSE IF Chr(s.line, p) = "\"" THEN multi_cmd_loop(s, p + 1, TRUE)
  ELSE IF Chr(s.line, p) = ESCAPE THEN multi_cmd_loop(s, p + 2, FALSE)
  ELSE IF Chr(s.line, p) = CMDSEP
    THEN [s EXCEPT !.mcmd = [txt |-> Sub(s.line, p + 1, Len(s.line)),
                             null |-> FALSE],
                   !.line = Sub(@, 0, p)]
  ELSE multi_cmd_loop(s, p + 1, FALSE)

multi_cmd(s) ==
  IF Holds(s.line, CMDSEP) THEN multi_cmd_loop(s, 0, FALSE) ELSE s

\* what dosify stores at position p
dosified(s, p) ==
  IF Chr(s.line, p) \in {"/", "\\"}
    THEN IF /\ (p + 1 = Len(s.line) \/ isblank(Chr(s.line, p + 1)))
            /\ p > 0
            /\ Chr(s.line, p - 1) # ":"
            /\ ~isblank(Chr(s.line, p - 1))
           THEN " "
           ELSE "\\"
  ELSE IF Chr(s.line, p) = "-" /\ p > 0 /\ isblank(Chr(s.line, p - 1))
    THEN "/"
  ELSE Chr(s.line, p)

RECURSIVE dosify_loop(_, _)
dosify_loop(s, p) ==
  IF p >= Len(s.line) THEN s
  ELSE dosify_loop(overwrite(s, p, <<dosified(s, p)>>), p + 1)

dosify(s) == dosify_loop(s, 0)

BRACE_TERM == {" ", "\t", ",", ";", "+"}

BRACE_STOP == {"<", "|", ">", "&"}

BRACE_ESCAPE == {"{", "}", ",", "^"}

\* quote ^= TRUE when the character at p is a quote
Toggle(s, p, quote) == IF is_quote(s, p) THEN ~quote ELSE quote

\* the locals of brace_expansion at its start
BraceStart ==
  [pos |-> 0, prepos |-> 0, prelen |-> 0, postpos |-> 0, postlen |-> 0,
   term |-> " ", pend |-> <<>>, quote |-> FALSE, q1 |-> FALSE,
   comma |-> FALSE, count |-> 0]

\* the characters of the buffer from p to q, those past line.len being
\* whatever the buffer held before
Cells(txt, p, q) ==
  [i \in 1..(q - p) |-> IF p + i <= Len(txt) THEN txt[p + i] ELSE "?"]

\* the loop that adds the postpend and prepend to the items; it has no test
\* for the end of the line
RECURSIVE brace_items(_, _)
\* an item given the postpend of the one before it, but no prepend
brace_item_bare(s, b) ==
  brace_items(replace_chars(s, b.pos, 1, b.pend),
              [b EXCEPT !.pos = @ + b.postlen])

brace_item(s, b) ==
  brace_items(
    insert_chars(replace_chars(s, b.pos, 1, b.pend),
                 b.pos + b.postlen,
                 Sub(s.line, b.prepos, b.prepos + b.prelen)),
    [b EXCEPT !.pos = @ + b.postlen + b.prelen])

brace_items(s, b) ==
  IF b.count < 0 THEN [remove_chars(s, b.pos - 1, 1) EXCEPT !.rv = 1]
  ELSE IF s.ub \/ b.pos >= Len(s.line) THEN [s EXCEPT !.ub = TRUE, !.rv = 1]
  ELSE IF b.quote
    THEN brace_items(s, [b EXCEPT !.pos = @ + 1, !.quote = ~is_quote(s, b.pos)])
  ELSE IF is_quote(s, b.pos)
    THEN brace_items(s, [b EXCEPT !.pos = @ + 1, !.quote = TRUE])
  ELSE IF Chr(s.line, b.pos) = ESCAPE
    THEN brace_items(s, [b EXCEPT !.pos = @ + 2])
  ELSE IF Chr(s.line, b.pos) = "{"
    THEN brace_items(s, [b EXCEPT !.pos = @ + 1, !.count = @ + 1])
  ELSE IF Chr(s.line, b.pos) = "}"
    THEN brace_items(s, [b EXCEPT !.pos = @ + 1, !.count = @ - 1])
  ELSE IF Chr(s.line, b.pos) = "," /\ b.count = 0
    THEN brace_item(s, b)
  ELSE brace_items(s, [b EXCEPT !.pos = @ + 1])

\* from the test of quote and count after the postpend loop to the removal of
\* the opening brace; b.postlen is still the position where the loop stopped
brace_pend(s, b) ==
  IF b.quote \/ b.count # 0 THEN [s EXCEPT !.rv = 0]
  ELSE brace_items(
         remove_chars(s, b.prepos + b.prelen, 1),
         [b EXCEPT !.pend = Cells(s.line, b.postpos, b.postlen) \o <<b.term>>,
                   !.postlen = b.postlen - b.postpos + 1,
                   !.pos = b.prepos + b.prelen])

\* the terminator of the prepend is kept whatever ends the postpend
brace_term_own(term, ch) == term

\* if (term == ' ') term = line.txt[postlen]
brace_term(term, ch) == IF term = " " THEN ch ELSE term

\* the loop that finds the end of the postpend
RECURSIVE brace_post(_, _)
brace_post(s, b) ==
  IF b.postlen >= Len(s.line) THEN brace_pend(s, b)
  ELSE IF b.count # 0
    THEN IF b.q1
           THEN brace_post(s, [b EXCEPT !.postlen = @ + 1,
                                        !.q1 = ~is_quote(s, b.postlen)])
         ELSE IF is_quote(s, b.postlen)
           THEN brace_post(s, [b EXCEPT !.postlen = @ + 1, !.q1 = TRUE])
         ELSE IF Chr(s.line, b.postlen) = ESCAPE
           THEN brace_post(s, [b EXCEPT !.postlen = @ + 2])
         ELSE IF Chr(s.line, b.postlen) = "{"
           THEN brace_post(s, [b EXCEPT !.postlen = @ + 1, !.count = @ + 1])
         ELSE IF Chr(s.line, b.postlen) = "}"
           THEN brace_post(s, [b EXCEPT !.postlen = @ + 1, !.count = @ - 1])
         ELSE brace_post(s, [b EXCEPT !.postlen = @ + 1])
  ELSE IF Chr(s.line, b.postlen) = ESCAPE
    THEN brace_post(s, [b EXCEPT !.postlen = @ + 2,
                                 !.quote = Toggle(s, b.postlen, @)])
  ELSE IF Chr(s.line, b.postlen) = "{"
    THEN brace_post(s, [b EXCEPT !.postlen = @ + 1, !.count = @ + 1,
                                 !.quote = Toggle(s, b.postlen, @)])
  ELSE IF ~Toggle(s, b.postlen, b.quote)
          /\ Chr(s.line, b.postlen) \in BRACE_TERM
    THEN brace_pend(s, [b EXCEPT !.quote = FALSE,
                                 !.term = brace_term(@, Chr(s.line, b.postlen))])
  ELSE IF ~Toggle(s, b.postlen, b.quote)
          /\ Chr(s.line, b.postlen) \in BRACE_STOP
    THEN brace_pend(s, [b EXCEPT !.quote = FALSE])
  ELSE brace_post(s, [b EXCEPT !.postlen = @ + 1,
                               !.quote = Toggle(s, b.postlen, @)])

\* the loop that finds the opening brace and the start of the prepend, the
\* loop that finds the closing brace, and the while (!comma) around them.  The
\* quick memchr scan for an opening brace agrees with the first loop on every
\* line and is left to it.
RECURSIVE brace_open(_, _)
RECURSIVE brace_close(_, _)
brace_open(s, b) ==
  IF b.pos >= Len(s.line) THEN [s EXCEPT !.rv = 0]
  ELSE IF Chr(s.line, b.pos) = ESCAPE
    THEN brace_open(s, [b EXCEPT !.pos = @ + 2,
                                 !.quote = Toggle(s, b.pos, @)])
  ELSE IF Chr(s.line, b.pos) = "{"
    THEN brace_close(s, [b EXCEPT !.quote = Toggle(s, b.pos, @),
                                  !.prelen = b.pos - b.prepos,
                                  !.q1 = FALSE, !.count = 1,
                                  !.pos = @ + 1, !.postpos = b.pos + 1])
  ELSE IF ~Toggle(s, b.pos, b.quote) /\ Chr(s.line, b.pos) \in BRACE_TERM
    THEN brace_open(s, [b EXCEPT !.pos = @ + 1, !.quote = FALSE,
                                 !.term = Chr(s.line, b.pos),
                                 !.prepos = b.pos + 1])
  ELSE IF ~Toggle(s, b.pos, b.quote) /\ Chr(s.line, b.pos) \in BRACE_STOP
    THEN brace_open(s, [b EXCEPT !.pos = @ + 1, !.quote = FALSE,
                                 !.prepos = b.pos + 1])
  ELSE brace_open(s, [b EXCEPT !.pos = @ + 1, !.quote = Toggle(s, b.pos, @)])

brace_close(s, b) ==
  IF b.postpos >= Len(s.line) THEN [s EXCEPT !.rv = 0]
  ELSE IF b.q1
    THEN brace_close(s, [b EXCEPT !.postpos = @ + 1,
                                  !.q1 = ~is_quote(s, b.postpos)])
  ELSE IF is_quote(s, b.postpos)
    THEN IF b.quote
           THEN [s EXCEPT !.rv = 0]
           ELSE brace_close(s, [b EXCEPT !.postpos = @ + 1, !.q1 = TRUE])
  ELSE IF Chr(s.line, b.postpos) = ESCAPE
    THEN brace_close(s, [b EXCEPT !.postpos = @ + 2])
  ELSE IF Chr(s.line, b.postpos) = "{"
    THEN brace_close(s, [b EXCEPT !.postpos = @ + 1, !.count = @ + 1])
  ELSE IF Chr(s.line, b.postpos) = "}"
    THEN IF b.count > 1
           THEN brace_close(s, [b EXCEPT !.postpos = @ + 1, !.count = @ - 1])
         ELSE IF b.comma
           THEN brace_post(s, [b EXCEPT !.count = 0,
                                        !.postpos = @ + 1,
                                        !.postlen = b.postpos + 1])
         ELSE brace_open(s, [b EXCEPT !.count = 0])
  ELSE IF Chr(s.line, b.postpos) = "," /\ b.count = 1
    THEN brace_close(s, [b EXCEPT !.postpos = @ + 1, !.comma = TRUE])
  ELSE brace_close(s, [b EXCEPT !.postpos = @ + 1])

brace_expansion(s) == brace_open(s, BraceStart)

RECURSIVE expand_braces_loop(_)
expand_braces_next(r) ==
  IF r.rv = 1 /\ ~r.ub THEN expand_braces_loop(r) ELSE un_escape(r, BRACE_ESCAPE)

expand_braces_loop(s) == expand_braces_next(brace_expansion(s))

expand_braces(s) == expand_braces_loop(s)

\* the end of the extension of extlist that starts before e
RECURSIVE ExtEnd(_, _)
ExtEnd(extlist, e) ==
  IF e < Len(extlist) /\ Chr(extlist, e) \notin {".", ";", ":"}
    THEN ExtEnd(extlist, e + 1)
    ELSE e

\* match_ext from position p of extlist on: the position of the extension
\* that equals ext (what assoc_pos is set to), or -1
RECURSIVE ExtPos(_, _, _)
ExtPos(ext, extlist, p) ==
  IF p >= Len(extlist) THEN -1
  ELSE IF /\ ExtEnd(extlist, p + 1) - p = Len(ext)
          /\ EqNoCase(Sub(extlist, p, Len(extlist)), ext, Len(ext))
    THEN p
  ELSE IF ExtEnd(extlist, p + 1) = Len(extlist) THEN -1
  ELSE IF Chr(extlist, ExtEnd(extlist, p + 1)) # "."
    THEN ExtPos(ext, extlist, ExtEnd(extlist, p + 1) + 1)
  ELSE ExtPos(ext, extlist, ExtEnd(extlist, p + 1))

match_ext(ext, extlist) == ExtPos(ext, extlist, 0) >= 0

\* the associations whose list of extensions holds ext
ExtMatches(list, ext) == {i \in 1..Len(list) : match_ext(ext, list[i].name)}

\* rv is 1 when an association was found; it is then the head of the list
find_assoc(s, ext) ==
  IF ExtMatches(s.assoc_head, ext) = {}
    THEN [s EXCEPT !.rv = 0]
    ELSE [s EXCEPT !.rv = 1,
                   !.assoc_head =
                      <<@[Least(ExtMatches(@, ext))]>>
                      \o Without(@, Least(ExtMatches(@, ext)))]

\* the two insert_chars that end associate; the association is the head
assoc_insert(f) ==
  [insert_chars(insert_chars(f, 0, f.assoc_head[1].lines[1]),
                Len(f.assoc_head[1].lines[1]), <<" ">>)
   EXCEPT !.rv = 1]

\* associate after find_define for a first word that ends in a slash
assoc_dir(f, ext, cnt, alt) ==
  IF f.rv = 0 THEN f
  ELSE IF cnt > 1 /\ Chr(f.line, ext - 1) # ":"
    THEN assoc_insert(remove_chars(f, ext, 1 + alt))
  ELSE IF alt = 1 THEN assoc_insert(remove_chars(f, ext + 1, 1))
  ELSE assoc_insert(f)

\* the position of the last dot of the word that starts at beg, looking back
\* from ext, or -1
RECURSIVE DotBack(_, _, _)
DotBack(txt, beg, ext) ==
  IF Chr(txt, ext) = "." THEN ext
  ELSE IF ext = beg \/ Chr(txt, ext) \in {"/", "\\", ":"} THEN -1
  ELSE DotBack(txt, beg, ext - 1)

\* associate after find_assoc for the extension that starts at dot
assoc_found(f, after, alt) ==
  IF f.rv = 0 THEN f
  ELSE IF alt = 1 THEN assoc_insert(remove_chars(f, after, 1))
  ELSE assoc_insert(f)

assoc_ext(g, dot, ext, alt) ==
  IF dot = -1 THEN [g EXCEPT !.rv = 0]
  ELSE assoc_found(find_assoc(g, Sub(g.line, dot, ext + 1 + alt)),
                   ext + 1, alt)

\* associate from the first word on: it starts at beg, ext is its last
\* character (the one before the alternative indicator when alt is 1)
assoc_word(g, beg, ext, alt) ==
  IF Chr(g.line, ext) \in {"/", "\\"}
    THEN assoc_dir(find_define(overwrite(g, ext, <<"\\">>), "assoc_head",
                               ext, 1 + alt),
                   ext, ext - beg + 1, alt)
  ELSE IF Chr(g.line, ext) = "." /\ (ext = beg \/ Chr(g.line, ext - 1) = ".")
    THEN [g EXCEPT !.rv = 0]
  ELSE assoc_ext(g, DotBack(g.line, beg, ext), ext, alt)

assoc_first(g) ==
  IF g.cnt = 0 THEN [g EXCEPT !.rv = 0]
  ELSE IF g.cnt > 1 /\ Chr(g.line, g.rv + g.cnt - 1) = "="
    THEN assoc_word(g, g.rv, g.rv + g.cnt - 2, 1)
  ELSE assoc_word(g, g.rv, g.rv + g.cnt - 1, 0)

associate(s) == assoc_first(get_string(s, 0, FALSE))

\* expand_symbol after find_define; the word is line[sym .. end-1]
symbol_found(f, sym, end) ==
  IF f.rv = 0 THEN f
  ELSE IF end < Len(f.line) /\ ~isblank(Chr(f.line, end))
    THEN [insert_chars(replace_chars(f, sym, end - sym, f.sym_head[1].lines[1]),
                       sym + Len(f.sym_head[1].lines[1]), <<" ">>)
          EXCEPT !.rv = 1]
  ELSE [replace_chars(f, sym, end - sym, f.sym_head[1].lines[1])
        EXCEPT !.rv = 1]

\* the replacement of the symbol, reported as no replacement
symbol_unreported(s) ==
  [symbol_found(find_define(s, "sym_head", skip_blank(s, 0),
                            skip_nondelim(s, skip_blank(s, 0))
                              - skip_blank(s, 0)),
                skip_blank(s, 0), skip_nondelim(s, skip_blank(s, 0)))
   EXCEPT !.rv = 0]

expand_symbol(s) ==
  symbol_found(find_define(s, "sym_head", skip_blank(s, 0),
                           skip_nondelim(s, skip_blank(s, 0))
                             - skip_blank(s, 0)),
               skip_blank(s, 0), skip_nondelim(s, skip_blank(s, 0)))

\* expand_macro after find_define: the frame keeps the line as the arguments
macro_found(f, freed) ==
  IF f.rv = 0 THEN f
  ELSE [get_macro_line(
          [f EXCEPT !.macro_stk = <<[name  |-> f.line,
                                     owner |-> f.mac_head[1].name,
                                     rest  |-> f.mac_head[1].lines,
                                     live  |-> TRUE]>> \o @,
                    !.call.op = "expand_macro"],
          freed)
        EXCEPT !.rv = 1]

expand_macro(s, freed) ==
  macro_found(find_define(s, "mac_head", skip_blank(s, 0),
                          skip_nondelim(s, skip_blank(s, 0))
                            - skip_blank(s, 0)),
              freed)

\* GetEnvironmentVariableW: the environment of the model holds no variable
get_env_var(var) == <<>>

\* expand_vars after the lookup of the name line[start .. p-1]
RECURSIVE expand_vars_loop(_, _, _, _)
var_found(f, p, start, env) ==
  IF f.rv = 1
    THEN expand_vars_loop(
           replace_chars(f, start - 1, p - start + 2, f.sym_head[1].lines[1]),
           p + 1, -1, env)
    ELSE expand_vars_loop(f, p + 1, p + 1, env)

\* the for loop of expand_vars; start is -1 for ~0
expand_vars_loop(s, p, start, env) ==
  IF p >= Len(s.line) THEN un_escape(s, VAR_ESCAPE)
  ELSE IF Chr(s.line, p) = ESCAPE THEN expand_vars_loop(s, p + 2, start, env)
  ELSE IF Chr(s.line, p) # VARIABLE_CH
    THEN expand_vars_loop(s, p + 1, start, env)
  ELSE IF start = -1 THEN expand_vars_loop(s, p + 1, p + 1, env)
  ELSE IF env /\ get_env_var(Sub(s.line, start, p)) # <<>>
    THEN expand_vars_loop(
           replace_chars(s, start - 1, p - start + 2,
                         get_env_var(Sub(s.line, start, p))),
           p + 1, -1, env)
  ELSE var_found(find_define(s, "sym_head", start, p - start), p, start, env)

expand_vars(s, env) == expand_vars_loop(s, 0, -1, env)

----------------------------------------------------------------------------
(* Internal commands. *)

\* a->name without the extension of cnt characters at assoc_pos
CutExt(txt, ap, cnt) ==
  IF ap + cnt < Len(txt) /\ Chr(txt, ap + cnt) \in {";", ":"}
    THEN Sub(txt, 0, ap) \o Sub(txt, ap + cnt + 1, Len(txt))
    ELSE Sub(txt, 0, ap) \o Sub(txt, ap + cnt, Len(txt))

\* execute_dela for one word that is not the name of an association; a is
\* what find_assoc left
dela_part(a, word) ==
  IF a.rv = 0 THEN a
  ELSE IF Len(a.assoc_head[1].name) = Len(word)
    THEN del_define(a, "assoc_head")
  ELSE [a EXCEPT !.assoc_head[1].name = CutExt(@, ExtPos(word, @, 0), Len(word))]

dela_word(f, word) ==
  IF f.rv = 1 THEN del_define(f, "assoc_head")
              ELSE dela_part(find_assoc(f, word), word)

RECURSIVE execute_dela(_, _)
execute_dela(s, p) ==
  IF p >= Len(s.line) THEN s
  ELSE execute_dela(
         dela_word(find_define(s, "assoc_head", p, skip_nonblank(s, p) - p),
                   Sub(s.line, p, skip_nonblank(s, p))),
         skip_blank(s, skip_nonblank(s, p)))

\* execute_defa after execute_dela; the definition starts at def
defa_add(d, p, end, def) ==
  IF def = Len(d.line) THEN d
  ELSE [add_define(d, "assoc_head", p, end - p)
        EXCEPT !.assoc_head[1].lines = <<add_line(d, def)>>]

execute_defa(s, p) ==
  IF p = Len(s.line) THEN s
  ELSE defa_add(execute_dela(s, p), p, skip_nonblank(s, p),
                skip_blank(s, skip_nonblank(s, p)))

\* execute_defs after the two find_define; found tells that the symbol exists
\* (it is then the head of the list)
defs_line(d, def) ==
  IF "line" \in d.fail THEN del_define(nomem(d, "line"), "sym_head")
  ELSE [d EXCEPT !.sym_head[1].lines = <<add_line(d, def)>>]

defs_set(f, p, end, def) ==
  IF def = Len(f.line)
    THEN IF f.rv = 1 THEN del_define(f, "sym_head") ELSE f
  ELSE IF f.rv = 1
    THEN defs_line([f EXCEPT !.sym_head[1].lines = <<>>], def)
  ELSE IF "define" \in f.fail THEN nomem(f, "define")
  ELSE defs_line(add_define(f, "sym_head", p, end - p), def)

\* execute_defs after find_define on the macro list
defs_mac(m, p, end) ==
  defs_set(find_define(IF m.rv = 1 THEN del_define(m, "mac_head") ELSE m,
                       "sym_head", p, end - p),
           p, end, skip_blank(m, end))

execute_defs(s, p) ==
  IF p = Len(s.line) THEN s
  ELSE IF /\ skip_nondelim(s, p) < Len(s.line)
          /\ ~isblank(Chr(s.line, skip_nondelim(s, p)))
    THEN s
  ELSE defs_mac(find_define(s, "mac_head", p, skip_nondelim(s, p) - p),
                p, skip_nondelim(s, p))

\* does the history line h hold txt, ignoring case
Contains(h, txt) ==
  \E e \in 0..(Len(h) - Len(txt)) :
     EqNoCase(Sub(h, e, Len(h)), txt, Len(txt))

\* the second part of execute_delh
delh_text(s, txt) ==
  [s EXCEPT !.history = SelectSeq(@, LAMBDA h : ~Contains(h, txt)),
            !.histsize = @ - Cardinality({i \in 1..Len(s.history) :
                                            Contains(s.history[i], txt)})]

execute_delh(s, p) ==
  IF p = Len(s.line)
    THEN remove_from_history(s, HPrev(s, 0))
    ELSE delh_text(remove_from_history(s, HPrev(s, 0)),
                   Sub(s.line, p, Len(s.line)))

execute_delm(s, p) == delete_define(s, "mac_head", p)

execute_dels(s, p) == delete_define(s, "sym_head", p)

execute_rsta(s) == reset_define(s, "assoc_head")

execute_rsth(s) == [s EXCEPT !.history = <<>>, !.histsize = 0]

execute_rstm(s) == reset_define(s, "mac_head")

execute_rsts(s) == reset_define(s, "sym_head")

\* the first position from p on that holds > or |, line.len when none does
RECURSIVE redirect_scan(_, _)
redirect_scan(s, p) ==
  IF p >= Len(s.line) THEN Len(s.line)
  ELSE IF Chr(s.line, p) \in {">", "|"} THEN p
  ELSE redirect_scan(s, p + 1)

\* the end of redirect: the redirection from p to the blanks after the word
\* that ends at last is taken out of the line.  Without a redirection p is
\* line.len and last comes from the local end, which was never assigned: a
\* position before p makes the count of remove_chars negative
redirect_tail(s, p, last, append) ==
  LET e  == IF last + 1 >= Len(s.line) THEN Len(s.line)
            ELSE skip_blank(s, last + 1)
      s1 == IF e < p THEN [s EXCEPT !.ub = TRUE] ELSE remove_chars(s, p, e - p)
  IN  [s1 EXCEPT !.rv = 1,
                 !.lst.lastm = IF append THEN 1
                               ELSE IF s.lst.out # "stdout" \/ s.kbd THEN -1
                               ELSE @]

\* the stream that _wpopen or _wfopen returns
redirect_open(s, kind) ==
  IF "stream" \in s.fail
    THEN [s EXCEPT !.lst.out = "null", !.lst.pipe = (kind = "pipe")]
    ELSE [s EXCEPT !.lst.out = kind, !.lst.pipe = (kind = "pipe"),
                   !.lst.open = kind, !.lst.opened = kind]

\* redirect after get_string: g.rv is beg, g.cnt is end, p the position of
\* the > or the |
redirect_word(g, p, append) ==
  IF g.cnt = 0
    THEN [g EXCEPT !.rv = 0, !.call.msg = "CMDkey: syntax error."]
    ELSE LET o == redirect_open(g, IF Chr(g.line, p) = "|" THEN "pipe"
                                   ELSE "file")
         IN  IF o.lst.out = "null"
               THEN [o EXCEPT !.rv = 0, !.call.msg = "CMDkey: unable to"]
               ELSE redirect_tail(o, p, g.rv + g.cnt, append)

redirect_found(s, p, append) ==
  redirect_word(get_string(s, p + 1 + (IF append THEN 1 ELSE 0), FALSE),
                p, append)

\* rv is the value returned; opened and closed tell of this command only
redirect(s, p) ==
  LET s0 == [s EXCEPT !.lst.out = "stdout", !.lst.opened = "none",
                      !.lst.closed = "none", !.lst.by = "none"]
      q  == redirect_scan(s, p)
  IN  IF q >= Len(s.line)
        THEN redirect_tail(s0, Len(s.line), s.junk, FALSE)
        ELSE redirect_found(s0, q,
                            /\ Chr(s.line, q) = ">"
                            /\ q + 1 < Len(s.line)
                            /\ Chr(s.line, q + 1) = ">")

\* pclose on a stream that _wpopen did not return is undefined: with "reject"
\* in fail the runtime returns an error, otherwise it closes the stream
end_redirect(s) ==
  IF s.lst.pipe
    THEN IF s.lst.out = "pipe"
           THEN [s EXCEPT !.lst.closed = "pipe", !.lst.by = "pclose",
                          !.lst.open = "none"]
           ELSE [s EXCEPT !.ub = TRUE, !.lst.closed = s.lst.out,
                          !.lst.by = "pclose",
                          !.lst.std = IF "reject" \in s.fail THEN @
                                      ELSE "closed"]
  ELSE IF s.lst.out # "stdout"
    THEN [s EXCEPT !.lst.closed = s.lst.out, !.lst.by = "fclose",
                   !.lst.open = "none"]
  ELSE s

\* the loop of execute_lsta over the extensions of the line: of the listing,
\* the model keeps the lookups
RECURSIVE lsta_loop(_, _)
lsta_loop(s, p) ==
  IF p >= Len(s.line) THEN s
  ELSE lsta_loop(find_assoc(s, Sub(s.line, p, skip_nonblank(s, p))),
                 skip_blank(s, skip_nonblank(s, p)))

lsta_out(r, p) == IF r.rv = 0 THEN r ELSE end_redirect(lsta_loop(r, p))

execute_lsta(s, p) == lsta_out(redirect(s, p), p)

\* the loop of list_defines over the names of the line, likewise
RECURSIVE defines_loop(_, _, _)
defines_loop(s, head, p) ==
  IF p >= Len(s.line) THEN s
  ELSE defines_loop(find_define(s, head, p, skip_nonblank(s, p) - p), head,
                    skip_blank(s, skip_nonblank(s, p)))

defines_out(r, head, p) ==
  IF r.rv = 0 THEN r ELSE end_redirect(defines_loop(r, head, p))

list_defines(s, head, p) == defines_out(redirect(s, p), head, p)

\* execute_lsth and execute_lstk: the history and the keys are written to
\* lstout and left as they are
lst_out(r) == IF r.rv = 0 THEN r ELSE end_redirect(r)

execute_lsth(s, p) == lst_out(redirect(s, p))

execute_lstk(s, p) == lst_out(redirect(s, p))

----------------------------------------------------------------------------
(* The sources of lines.  The command file is the sequence of its lines,   *)
(* each without its line feed.                                              *)

ENDM == <<"e", "n", "d", "m">>

\* the lines of the file from the first one that get_file_line does not skip
RECURSIVE FileSkip(_)
FileSkip(lines) ==
  IF lines # <<>> /\ (lines[1] = <<>> \/ lines[1][1] = "-")
    THEN FileSkip(Tail(lines))
    ELSE lines

\* rv is the value returned
get_file_line(s) ==
  IF FileSkip(s.file.lines) = <<>>
    THEN IF s.def_macro
           THEN [s EXCEPT !.file.lines = <<>>, !.line = ENDM, !.rv = 1]
           ELSE [s EXCEPT !.file.lines = <<>>, !.line = <<>>, !.rv = 0]
    ELSE [s EXCEPT !.file.lines = Tail(FileSkip(@)),
                   !.line = FileSkip(s.file.lines)[1],
                   !.max = Max(@, Len(FileSkip(s.file.lines)[1]) + 2),
                   !.rv = 1]

\* edit_line up to its loop; the program then waits for a key
edit_line_init(s) ==
  [s EXCEPT !.pc = "edit", !.done = FALSE, !.ovr = s.option.overwrite,
            !.pos = 0, !.empty = 0, !.recall = s.option.auto_recall,
            !.cont_recall = 1, !.hist = 0, !.fnp = 0, !.compl = 0,
            !.name = 0, !.fnoq = FALSE, !.pq = FALSE, !.recording = FALSE,
            !.rec_mac = 0, !.mac = 0, !.mac_pos = 0]

\* get_next_line after line.len = 0 and kbd = FALSE; call records the source
get_next_from(s, freed) ==
  IF s.file.open
    THEN get_file_line([s EXCEPT !.call.op = "get_file_line"])
  ELSE IF s.macro_stk # <<>>
    THEN get_macro_line(
           [s EXCEPT !.call.op = "get_macro_line"], freed)
  ELSE IF ~s.mcmd.null
    THEN [copy_chars([s EXCEPT !.call.op = "mcmd",
                               !.call.mc = Append(@, s.mcmd.txt)],
                     s.mcmd.txt)
          EXCEPT !.mcmd = NoText]
  ELSE edit_line_init([s EXCEPT !.kbd = TRUE, !.call.op = "edit_line"])

\* pc is "edit" afterwards when the line has to come from the keyboard
get_next_line(s, freed) ==
  get_next_from([s EXCEPT !.line = <<>>, !.kbd = FALSE], freed)

\* the position in mac_head of the macro that execute_defm defines
MacIndex(s, dm) == CHOOSE i \in 1..Len(s.mac_head) : s.mac_head[i].name = dm

\* a blank line ends a multi-line definition as well
blank_or_endm(s) ==
  \/ skip_blank(s, 0) = Len(s.line)
  \/ /\ skip_nonblank(s, skip_blank(s, 0)) - skip_blank(s, 0) = Len(ENDM)
     /\ EqNoCase(Sub(s.line, skip_blank(s, 0), Len(s.line)), ENDM, Len(ENDM))

\* is the line the one that ends a multi-line definition
IsEndm(s) ==
  /\ skip_nonblank(s, skip_blank(s, 0)) - skip_blank(s, 0) = Len(ENDM)
  /\ EqNoCase(Sub(s.line, skip_blank(s, 0), Len(s.line)), ENDM, Len(ENDM))

\* the end of execute_defm; ll is NULL when the macro got no line
defm_end(s, dm) ==
  IF s.mac_head[MacIndex(s, dm)].lines = <<>>
    THEN [del_define(s, "mac_head") EXCEPT !.def_macro = FALSE]
    ELSE [s EXCEPT !.def_macro = FALSE]

\* the loop of execute_defm for a multi-line definition of the macro dm;
\* when the next line has to be typed, execute_defm waits in edit_line
RECURSIVE defm_loop(_, _, _)
defm_got(n, dm, freed) ==
  IF IsEndm(n) THEN defm_end(n, dm)
  ELSE IF "line" \in n.fail
    THEN [del_define(nomem(n, "line"), "mac_head") EXCEPT !.def_macro = FALSE]
  ELSE defm_loop([n EXCEPT !.mac_head[MacIndex(n, dm)].lines =
                             Append(@, add_line(n, 0))],
                 dm, freed)

defm_line(n, dm, freed) ==
  IF n.pc = "edit"
    THEN [n EXCEPT !.where = <<[fn |-> "execute_defm", mac |-> dm],
                               [fn |-> "MyReadConsoleW", mac |-> <<>>]>>]
    ELSE defm_got(n, dm, freed)

defm_loop(s, dm, freed) == defm_line(get_next_line(s, freed), dm, freed)

\* execute_defm from the test for a single-line definition on
defm_def(d, def, freed) ==
  IF def # Len(d.line)
    THEN IF "line" \in d.fail THEN del_define(nomem(d, "line"), "mac_head")
         ELSE [d EXCEPT !.mac_head[1].lines = <<add_line(d, def)>>]
    ELSE defm_loop([d EXCEPT !.def_macro = TRUE], d.mac_head[1].name, freed)

\* execute_defm after find_define on the macro list
defm_mac(m, p, end, freed) ==
  IF m.rv = 1
    THEN defm_def([free_linelist(m, "mac_head", m.mac_head[1].name)
                   EXCEPT !.mac_head[1].lines = <<>>],
                  skip_blank(m, end), freed)
  ELSE IF "define" \in m.fail THEN nomem(m, "define")
  ELSE defm_def(add_define(m, "mac_head", p, end - p), skip_blank(m, end),
                freed)

\* execute_defm after find_define on the symbol list
\* execute_defm without the removal of the symbol of the same name
defm_kept(y, p, end, freed) ==
  defm_mac(find_define(y, "mac_head", p, end - p), p, end, freed)

defm_sym(y, p, end, freed) ==
  defm_mac(find_define(IF y.rv = 1 THEN del_define(y, "sym_head") ELSE y,
                       "mac_head", p, end - p),
           p, end, freed)

execute_defm(s, p, freed) ==
  IF s.def_macro THEN s
  ELSE IF /\ skip_nondelim(s, p) < Len(s.line)
          /\ ~isblank(Chr(s.line, skip_nondelim(s, p)))
    THEN s
  ELSE defm_sym(find_define(s, "sym_head", p, skip_nondelim(s, p) - p),
                p, skip_nondelim(s, p), freed)

CMD_LEN == 4

----------------------------------------------------------------------------
(* Keyboard macros.  A macro is known by its key; line holds the text of a  *)
(* macro with len <= 0, func the steps of one with len > 0 (a single step   *)
(* is chfn in the source).                                                   *)

NewMacro(key) == [key |-> key, len |-> 0, func |-> <<>>, line |-> <<>>]

\* the loop of find_macro from the i-th macro on: m is the place of the
\* macro found (0 is NULL), prev the place of macro_prev
RECURSIVE find_scan(_, _, _)
find_scan(s, key, i) ==
  IF i > Len(s.macro_head) THEN [m |-> 0, prev |-> i - 1]
  ELSE IF s.macro_head[i].key = key THEN [m |-> i, prev |-> i - 1]
  ELSE IF s.macro_head[i].key > key THEN [m |-> 0, prev |-> i - 1]
  ELSE find_scan(s, key, i + 1)

find_macro(s, key) == find_scan(s, key, 1).m

\* the macro of a key that has one
MacroOf(s, key) == s.macro_head[find_macro(s, key)]

\* an existing macro is reset; free is called by the length of the line
\* being edited, whatever the macro holds
add_found(s, i) ==
  [s EXCEPT !.ub = @ \/ (Len(s.line) > 1 /\ s.macro_head[i].len \in {-1, 1}),
            !.macro_head[i] = NewMacro(s.macro_head[i].key)]

add_macro(s, key) ==
  IF find_macro(s, key) = 0
    THEN [s EXCEPT !.macro_head =
                     Sub(@, 0, find_scan(s, key, 1).prev)
                     \o <<NewMacro(key)>>
                     \o Sub(@, find_scan(s, key, 1).prev, Len(@))]
    ELSE add_found(s, find_macro(s, key))

del_found(s, key, i) ==
  [s EXCEPT !.macro_head = Sub(@, 0, i - 1) \o Sub(@, i, Len(@)),
            !.keymap[key] = "Ignore"]

del_macro(s, key) ==
  IF find_macro(s, key) = 0 THEN s ELSE del_found(s, key, find_macro(s, key))

\* the macro is kept whatever it holds
macro_kept(s, key) == [s EXCEPT !.keymap[key] = "Play"]

\* the macro that was recorded for the key is finished
end_macro(s, key) ==
  IF MacroOf(s, key).len = 0 THEN del_macro(s, key)
  ELSE IF MacroOf(s, key).len = 1 /\ MacroOf(s, key).func[1].ch = "NUL"
    THEN [del_macro(s, key)
          EXCEPT !.keymap[key] = MacroOf(s, key).func[1].fn]
  ELSE [s EXCEPT !.keymap[key] = "Play"]

----------------------------------------------------------------------------
(* defk and delk.  call.msg is the diagnostic that the command prints.      *)

\* the names of the table cfg that the texts of the model use, with their
\* functions
cfg ==
  {[name |-> <<"C", "h", "a", "r", "L", "e", "f", "t">>, func |-> "CharLeft"],
   [name |-> <<"E", "r", "a", "s", "e">>, func |-> "Erase"],
   [name |-> <<"I", "g", "n", "o", "r", "e">>, func |-> "Ignore"],
   [name |-> <<"P", "l", "a", "y">>, func |-> "Play"]}

\* the names of the table cfgkey for the keys of the model
cfgkey ==
  {[name |-> <<"B", "k", "s", "p">>, func |-> 6],
   [name |-> <<"E", "n", "t", "e", "r">>, func |-> 4],
   [name |-> <<"E", "s", "c">>, func |-> 5],
   [name |-> <<"L", "e", "f", "t">>, func |-> 7]}

\* the value search_cfg returns for word in a table of names with values;
\* none stands for -1
cfg_value(word, table, none) ==
  IF \E c \in table : Len(c.name) = Len(word) /\ EqNoCase(c.name, word, Len(word))
    THEN (CHOOSE c \in table :
            Len(c.name) = Len(word) /\ EqNoCase(c.name, word, Len(word))).func
    ELSE none

\* the function key named by the cnt characters at p: F1, F2 and F12 are the
\* function keys of the model
fkey(s, p, cnt) ==
  IF cnt = 2 /\ Chr(s.line, p + 1) = "1" THEN 1
  ELSE IF cnt = 2 /\ Chr(s.line, p + 1) = "2" THEN 2
  ELSE IF cnt = 3 /\ Chr(s.line, p + 1) = "1" /\ Chr(s.line, p + 2) = "2" THEN 3
  ELSE 0

\* the key named by the cnt characters at p, 0 for NULL; the texts of the
\* model name no key with Shift, Ctrl or Alt
find_key(s, p, cnt) ==
  IF cnt < 2 THEN 0
  ELSE IF Chr(s.line, p) \in {"f", "F"} THEN fkey(s, p, cnt)
  ELSE cfg_value(Sub(s.line, p, p + cnt), cfgkey, 0)

\* printf of a diagnostic
said(s, msg) == [s EXCEPT !.call.msg = msg]

\* if (*key == Play) del_macro( key ); *key = func;
set_key(s, key, func) ==
  [(IF s.keymap[key] = "Play" THEN del_macro(s, key) ELSE s)
   EXCEPT !.keymap[key] = func]

\* a command: the text after = is the macro of the key
defk_cmd(s, key, p) ==
  [add_macro(s, key)
   EXCEPT !.macro_head[find_macro(add_macro(s, key), key)] =
            [@ EXCEPT !.len = p - Len(s.line),
                      !.line = Sub(s.line, p, Len(s.line))],
          !.keymap[key] = "Play"]

\* m->len -= (pos - end) / 2 for the quote at p, after the backslashes
\* before it
defk_back(s, i, p) ==
  [s EXCEPT !.macro_head[i].func =
              Sub(@, 0, Len(@) - ((Backslashes(s.line, p) + 1) \div 2)),
            !.macro_head[i].len = @ - ((Backslashes(s.line, p) + 1) \div 2)]

\* m->func[m->len++] = step
defk_step(s, i, step) ==
  [s EXCEPT !.macro_head[i].func = Append(@, step), !.macro_head[i].len = @ + 1]

\* while (cnt--) over the characters of a string; rv is pos
RECURSIVE defk_chars(_, _, _, _)
defk_chars(s, i, p, cnt) ==
  IF cnt = 0 THEN [s EXCEPT !.rv = p]
  ELSE defk_chars(
         defk_step(IF Chr(s.line, p) = "\"" THEN defk_back(s, i, p) ELSE s,
                   i, [ch |-> Chr(s.line, p), fn |-> "Default"]),
         i, p + 1, cnt - 1)

\* the string at p is added and its closing quote is jumped over
defk_string(s, i, p, cnt) ==
  IF defk_chars(s, i, p, cnt).rv < Len(s.line)
    THEN [defk_back(defk_chars(s, i, p, cnt), i, p + cnt)
          EXCEPT !.rv = p + cnt + 1]
    ELSE defk_chars(s, i, p, cnt)

\* the do-while over the elements of a macro; g is what get_string left
RECURSIVE defk_loop(_, _)
defk_next(r, key) ==
  IF get_string(r, r.rv, FALSE).cnt # 0
    THEN defk_loop(get_string(r, r.rv, FALSE), key)
    ELSE end_macro(r, key)

defk_loop(g, key) ==
  IF g.found_quote
    THEN defk_next(defk_string(g, find_macro(g, key), g.rv, g.cnt), key)
  ELSE IF cfg_value(Sub(g.line, g.rv, g.rv + g.cnt), cfg, "") = ""
    THEN del_macro(said(g, "unrecognised function"), key)
  ELSE defk_next([defk_step(g, find_macro(g, key),
                            [ch |-> "NUL",
                             fn |-> cfg_value(Sub(g.line, g.rv, g.rv + g.cnt),
                                              cfg, "")])
                  EXCEPT !.rv = g.rv + g.cnt],
                 key)

\* a single word changes the keymap
defk_word(g, key) ==
  IF cfg_value(Sub(g.line, g.rv, g.rv + g.cnt), cfg, "") = ""
    THEN said(g, "unrecognised function")
    ELSE set_key(g, key, cfg_value(Sub(g.line, g.rv, g.rv + g.cnt), cfg, ""))

\* execute_defk after get_string
defk_def(g, key) ==
  IF skip_blank(g, g.rv + g.cnt) = Len(g.line) /\ ~g.found_quote
    THEN defk_word(g, key)
    ELSE defk_loop([add_macro(g, key) EXCEPT !.rv = g.rv, !.cnt = g.cnt], key)

\* execute_defk with the key found; p is the position after the blanks that
\* follow its name
defk_key(s, key, p) ==
  IF p = Len(s.line) THEN set_key(s, key, "Ignore")
  ELSE IF Chr(s.line, p) = "=" THEN defk_cmd(s, key, p + 1)
  ELSE defk_def(get_string(s, p, FALSE), key)

execute_defk(s, p) ==
  IF p = Len(s.line) THEN s
  ELSE IF find_key(s, p, skip_nonblank(s, p) - p) = 0
    THEN said(s, "unrecognised key")
  ELSE defk_key(s, find_key(s, p, skip_nonblank(s, p) - p),
                skip_blank(s, skip_nonblank(s, p)))

\* the while loop of execute_delk
RECURSIVE execute_delk(_, _)
execute_delk(s, p) ==
  IF p >= Len(s.line) THEN s
  ELSE IF find_key(s, p, skip_nonblank(s, p) - p) = 0
    THEN execute_delk(s, skip_blank(s, skip_nonblank(s, p)))
  ELSE execute_delk(set_key(s, find_key(s, p, skip_nonblank(s, p) - p), "Ignore"),
                    skip_blank(s, skip_nonblank(s, p)))

----------------------------------------------------------------------------
(* The internal commands.                                                   *)

\* the names of the table internal[]
internal ==
  {<<"d", "e", "f", c>> : c \in {"a", "k", "m", "s"}}
    \cup {<<"d", "e", "l", c>> : c \in {"a", "h", "k", "m", "s"}}
    \cup {<<"l", "s", "t", c>> : c \in {"a", "h", "k", "m", "s"}}
    \cup {<<"r", "s", "t", c>> : c \in {"a", "h", "m", "s"}}

\* the entry of a table of names that search_cfg finds for word, <<>> for -1
search_cfg(word, table) ==
  IF \E c \in table : Len(c) = Len(word) /\ EqNoCase(c, word, Len(word))
    THEN CHOOSE c \in table : Len(c) = Len(word) /\ EqNoCase(c, word, Len(word))
    ELSE <<>>

\* the call of the function of the command func with the position p.  The
\* console is not part of the state: lstk and lsth leave it as it is.
execute(s, func, p, freed) ==
  CASE func = <<"d", "e", "f", "a">> -> execute_defa(s, p)
    [] func = <<"d", "e", "f", "k">> -> execute_defk(s, p)
    [] func = <<"d", "e", "f", "m">> -> execute_defm(s, p, freed)
    [] func = <<"d", "e", "f", "s">> -> execute_defs(s, p)
    [] func = <<"d", "e", "l", "a">> -> execute_dela(s, p)
    [] func = <<"d", "e", "l", "h">> -> execute_delh(s, p)
    [] func = <<"d", "e", "l", "k">> -> execute_delk(s, p)
    [] func = <<"d", "e", "l", "m">> -> execute_delm(s, p)
    [] func = <<"d", "e", "l", "s">> -> execute_dels(s, p)
    [] func = <<"l", "s", "t", "a">> -> execute_lsta(s, p)
    [] func = <<"l", "s", "t", "h">> -> execute_lsth(s, p)
    [] func = <<"l", "s", "t", "k">> -> execute_lstk(s, p)
    [] func = <<"l", "s", "t", "m">> -> list_defines(s, "mac_head", p)
    [] func = <<"l", "s", "t", "s">> -> list_defines(s, "sym_head", p)
    [] func = <<"r", "s", "t", "a">> -> execute_rsta(s)
    [] func = <<"r", "s", "t", "h">> -> execute_rsth(s)
    [] func = <<"r", "s", "t", "m">> -> execute_rstm(s)
    [] func = <<"r", "s", "t", "s">> -> execute_rsts(s)
    [] OTHER -> s

\* internal_cmd from un_escape on; the word of the command ends at after
internal_run(u, func, after, freed) ==
  [execute(u, func, skip_blank(u, after), freed)
   EXCEPT !.rv = 1, !.call.cmd = u.line, !.call.kbd = u.kbd]

\* rv is the value returned; pc is "edit" when execute_defm waits for a line
internal_cmd(s, freed) ==
  IF s.check_break > 1
    THEN [s EXCEPT !.check_break = 1, !.macro_stk = <<>>, !.rv = 1]
  ELSE IF skip_nonblank(s, skip_blank(s, 0)) - skip_blank(s, 0) # CMD_LEN
    THEN [s EXCEPT !.rv = 0]
  ELSE IF search_cfg(Sub(s.line, skip_blank(s, 0), skip_blank(s, 0) + CMD_LEN),
                     internal) = <<>>
    THEN [s EXCEPT !.rv = 0]
  ELSE internal_run(IF s.kbd THEN un_escape(s, NULL) ELSE s,
                    search_cfg(Sub(s.line, skip_blank(s, 0),
                                   skip_blank(s, 0) + CMD_LEN), internal),
                    skip_blank(s, 0) + CMD_LEN, freed)

\* the while loop of read_cmdfile
RECURSIVE cmdfile_loop(_, _)
cmdfile_cmd(i, freed) ==
  cmdfile_loop(IF i.rv = 1 THEN i ELSE add_to_history(i), freed)

cmdfile_line(g, freed) ==
  IF g.rv = 0 THEN g ELSE cmdfile_cmd(internal_cmd(g, freed), freed)

cmdfile_loop(s, freed) == cmdfile_line(get_file_line(s), freed)

\* cmdname names a file that can be opened
read_cmdfile(s, freed) ==
  [cmdfile_loop([s EXCEPT !.kbd = FALSE,
                          !.file = [open |-> TRUE, lines |-> s.cmdname.lines],
                          !.line = <<>>, !.max = 0],
                freed)
   EXCEPT !.file = NoFile]

----------------------------------------------------------------------------
(* Filename completion.  The file system is one directory, the current     *)
(* one: listing holds its entries in the order FindFirstFileW and          *)
(* FindNextFileW give them.  The environment holds no variable, so the     *)
(* lists of extensions are the defaults, and FindExecutableW finds no      *)
(* program.  No name of a listing is the beginning of another one, so that *)
(* no name is read past its end (over is 0).                                *)

FEXEC ==
  <<".", "e", "x", "e", ".", "c", "o", "m", ".", "b", "a", "t",
    ".", "c", "m", "d">>

FIGNORE ==
  <<".", "e", "x", "e", ".", "c", "o", "m", ".", "d", "l", "l",
    ".", "o", "b", "j", ".", "o", ".", "b", "a", "k">>

\* does the name nm match the pattern pat of FindFirstFileW
RECURSIVE Glob(_, _)
Glob(pat, nm) ==
  IF pat = <<>> THEN nm = <<>>
  ELSE IF pat[1] = "*"
    THEN Glob(Tail(pat), nm) \/ (nm # <<>> /\ Glob(pat, Tail(nm)))
  ELSE /\ nm # <<>>
       /\ (pat[1] = "?" \/ Lower(pat[1]) = Lower(nm[1]))
       /\ Glob(Tail(pat), Tail(nm))

\* the order of the characters for CompareStringW
Collation == <<" ", ".", "\\", "a", "b", "e", "f", "o", "r", "t", "x">>

Rank(ch) ==
  IF \E i \in 1..Len(Collation) : Collation[i] = Lower(ch)
    THEN CHOOSE i \in 1..Len(Collation) : Collation[i] = Lower(ch)
    ELSE 0

\* CompareStringW( ..., NORM_IGNORECASE, a, b ) == 3: a is greater than b
RECURSIVE Greater(_, _)
Greater(a, b) ==
  IF a = <<>> THEN FALSE
  ELSE IF b = <<>> THEN TRUE
  ELSE IF Rank(a[1]) # Rank(b[1]) THEN Rank(a[1]) > Rank(b[1])
  ELSE Greater(Tail(a), Tail(b))

\* the ring with nm linked in at its end
insert_last(names, nm) == Append(names, nm)

\* the ring with nm linked in after the last name that nm is greater than
InsertSorted(names, nm) ==
  LET after == {i \in 1..Len(names) : Greater(nm, names[i])}
      k     == IF after = {} THEN 0
               ELSE CHOOSE i \in after : \A j \in after : j <= i
  IN  Sub(names, 0, k) \o <<nm>> \o Sub(names, k, Len(names))

\* the extension match_file tests: from the last dot on, or the dot alone
ExtOf(nm) ==
  IF Holds(nm, ".")
    THEN Sub(nm, (CHOOSE i \in 1..Len(nm) :
                    nm[i] = "." /\ \A j \in (i + 1)..Len(nm) : nm[j] # ".") - 1,
             Len(nm))
    ELSE <<".">>

\* match_file for the entry e; c holds the arguments of the search
Accepted(s, e, c) ==
  IF e.dir THEN TRUE
  ELSE IF c.dirs THEN FALSE
  ELSE IF c.extlist = <<>> THEN TRUE
  ELSE IF c.exe
    THEN \/ match_ext(ExtOf(e.name), c.extlist)
         \/ ExtMatches(s.assoc_head, ExtOf(e.name)) # {}
  ELSE ~match_ext(ExtOf(e.name), c.extlist)

\* the name find_files stores for an entry that match_file accepted
FoundName(s, e, c) ==
  IF e.dir THEN e.name \o <<s.dirchar>>
  ELSE IF c.exe /\ c.extlist # <<>> /\ ~Holds(e.name, ".") THEN e.name \o <<".">>
  ELSE e.name

\* the number of leading characters, at most lim, that a and b share
CommonLen(a, b, lim) ==
  LET D == {i \in 0..(lim - 1) : Lower(Chr(a, i)) # Lower(Chr(b, i))}
  IN  IF D = {} THEN lim ELSE Least(D)

\* the loop over beg reads a name past its end: the names are equal up to the
\* end of the shorter one, which is shorter than the prefix lim
ff_past(a, b, lim) ==
  /\ Min(Len(a), Len(b)) < lim
  /\ CommonLen(a, b, Min(Len(a), Len(b))) = Min(Len(a), Len(b))

\* beg after the loop; over of the characters read past the end of a name
\* happen to be equal
ff_common(a, b, lim, over) ==
  IF ff_past(a, b, lim)
    THEN Min(lim, Min(Len(a), Len(b)) + over)
    ELSE CommonLen(a, b, lim)

\* the body of the while (match) loop for the name nm; rv is prefix
ff_add(s, nm, c) ==
  [s EXCEPT !.fname_cnt = @ + 1,
            !.fname.names = InsertSorted(@, nm),
            !.ub = @ \/ (~c.wild /\ s.rv >= 0
                         /\ ff_past(nm, s.fname.names[1], s.rv)),
            !.rv = IF c.wild THEN @
                   ELSE IF @ < 0 THEN Len(nm)
                   ELSE IF ff_common(nm, s.fname.names[1], @, c.over)
                             >= c.typed
                     THEN ff_common(nm, s.fname.names[1], @, c.over)
                   ELSE @]

\* find_assoc, called by match_file, moves the association it finds
ff_assoc(s, e, c) ==
  IF /\ ~e.dir
     /\ c.exe
     /\ c.extlist # <<>>
     /\ ~match_ext(ExtOf(e.name), c.extlist)
    THEN [find_assoc(s, ExtOf(e.name)) EXCEPT !.rv = s.rv]
    ELSE s

\* the entries from number k on
RECURSIVE ff_scan(_, _, _)
ff_scan(s, k, c) ==
  IF k > Len(s.listing) THEN s
  ELSE IF Glob(c.pat, s.listing[k].name) /\ Accepted(s, s.listing[k], c)
    THEN ff_scan(ff_add(ff_assoc(s, s.listing[k], c),
                        FoundName(s, s.listing[k], c), c),
                 k + 1, c)
  ELSE ff_scan(s, k + 1, c)

\* the search with the arguments c; a path with a directory part names no
\* directory of the model
ff_search(s, c) ==
  IF s.fname_pos # s.path_pos THEN [s EXCEPT !.rv = -1]
  ELSE IF \A k \in 1..Len(s.listing) :
            ~(Glob(c.pat, s.listing[k].name) /\ Accepted(s, s.listing[k], c))
    THEN IF ~c.exe /\ ~c.dirs /\ c.extlist # <<>>
           THEN ff_scan([s EXCEPT !.rv = IF c.wild THEN -2 ELSE -1], 1,
                        [c EXCEPT !.extlist = <<>>])
           ELSE [s EXCEPT !.rv = -1]
  ELSE ff_scan([s EXCEPT !.rv = IF c.wild THEN -2 ELSE -1], 1, c)

\* find_files from the write of the wildcard on; cnt is 1 for wild.  dirs is
\* -1 for the open dialog: sel is what the user selects in it
ff_find(s, dirs, sel) ==
  IF dirs < 0
    THEN [s EXCEPT !.ub = @ \/ s.pos + 1 - s.cnt > s.max + 1,
                   !.fname_pos = sel.offset,
                   !.rv = IF sel.files = <<>> THEN 0 ELSE 1]
    ELSE [ff_search(
            [s EXCEPT !.ub = @ \/ s.pos + 1 - s.cnt > s.max + 1,
                      !.fname = [self |-> Sub(s.line, s.fname_pos, s.pos),
                                 names |-> <<>>, null |-> FALSE],
                      !.fname_cnt = 0],
            [pat     |-> Cells(s.line, s.path_pos, s.pos)
                           \o (IF s.cnt = 1 THEN <<>> ELSE <<"*">>),
             extlist |-> IF s.path_pos = (IF s.found_quote THEN 1 ELSE 0)
                           THEN FEXEC ELSE FIGNORE,
             dirs    |-> dirs = 1,
             exe     |-> s.path_pos = (IF s.found_quote THEN 1 ELSE 0),
             wild    |-> s.cnt = 1,
             typed   |-> s.pos - s.fname_pos,
             over    |-> 0])
          EXCEPT !.cnt = s.cnt]

\* the loop that finds the filename position and the wildcards
RECURSIVE ff_name(_, _)
ff_name(s, beg) ==
  IF beg >= s.pos THEN s
  ELSE IF Chr(s.line, beg) \in {"*", "?"}
    THEN ff_name([s EXCEPT !.cnt = 1], beg + 1)
  ELSE IF Chr(s.line, beg) \in {"/", "\\"}
    THEN ff_name([s EXCEPT !.dirchar = Chr(s.line, beg), !.fname_pos = beg + 1],
                 beg + 1)
  ELSE IF Chr(s.line, beg) = ":"
    THEN ff_name([s EXCEPT !.fname_pos = beg + 1], beg + 1)
  ELSE ff_name(s, beg + 1)

\* the opening quote is kept
ff_quote(s) ==
  IF s.found_quote
    THEN [insert_chars(s, s.path_pos, <<"\"">>)
          EXCEPT !.path_pos = @ + 1, !.pos = @ + 1]
    ELSE s

\* the loop that removes the quotes
RECURSIVE ff_unquote(_, _)
ff_unquote(s, beg) ==
  IF beg >= s.pos THEN s
  ELSE IF is_quote(s, beg)
    THEN ff_unquote([remove_chars(s, beg, 1)
                     EXCEPT !.found_quote = TRUE, !.pos = @ - 1], beg)
  ELSE ff_unquote(s, beg + 1)

\* the loop that finds the start of the path
RECURSIVE PathStart(_, _, _, _)
PathStart(s, beg, quote, pp) ==
  IF beg >= s.pos THEN pp
  ELSE IF quote THEN PathStart(s, beg + 1, ~is_quote(s, beg), pp)
  ELSE IF is_quote(s, beg) THEN PathStart(s, beg + 1, TRUE, pp)
  ELSE IF IsCtlOrSpace(Chr(s.line, beg)) \/ Chr(s.line, beg) \in INVALID_FNAME
    THEN PathStart(s, beg + 1, FALSE, beg + 1)
  ELSE PathStart(s, beg + 1, FALSE, pp)

\* the scan for the filename starts with fname_pos at path_pos
ff_start(q) ==
  ff_name([q EXCEPT !.fname_pos = q.path_pos, !.cnt = 0], q.path_pos)

\* without a match the value is -1
ff_done(r) == IF r.fname_cnt = 0 /\ r.rv = -2 THEN [r EXCEPT !.rv = -1] ELSE r

\* find_files after path_pos is known
ff_path(s, dirs, sel) ==
  IF dirs < 0
    THEN ff_find(ff_start(ff_quote(ff_unquote(s, s.path_pos))), dirs, sel)
    ELSE ff_done(ff_find(ff_start(ff_quote(ff_unquote(s, s.path_pos))),
                         dirs, sel))

\* *pos is s.pos; rv is the value returned
find_files(s, dirs, sel) ==
  ff_path([s EXCEPT !.fname = NoRing, !.found_quote = FALSE,
                    !.path_pos = PathStart(s, 0, FALSE, 0)],
          dirs, sel)

----------------------------------------------------------------------------
(* edit_line: the completion cases.  fnp is a position in the ring: 0 is    *)
(* fname itself, k the k-th name.                                           *)

Completions == {"List", "Cycle", "CycleBack", "ListDir", "CycleDir", "CycleDirBack"}

\* fnp->line
RingLine(s, k) == IF k = 0 THEN s.fname.self ELSE s.fname.names[k]

\* from dir = ... to the end of the case; quote is 1 or 0
comp_name(s, fnm, end, quote) ==
  IF Chr(fnm, end - 1) = s.dirchar
    THEN [replace_chars(s, s.fname_pos, s.pos - s.fname_pos,
                        Cells(fnm, 0, IF s.option.no_slash # 0
                                        THEN end - 1 ELSE end))
          EXCEPT !.pos = s.fname_pos
                         + (IF s.option.no_slash # 0 THEN end - 1 ELSE end)]
  ELSE IF s.fnp = 0
    THEN [replace_chars(s, s.fname_pos, s.pos - s.fname_pos, Cells(fnm, 0, end))
          EXCEPT !.pos = s.fname_pos + end]
  ELSE [insert_chars(replace_chars(s, s.fname_pos, s.pos - s.fname_pos,
                                   Cells(fnm, 0, end)),
                     s.fname_pos + end,
                     IF quote = 1 THEN <<"\"", " ">> ELSE <<" ">>)
        EXCEPT !.pos = s.fname_pos + end + quote + 1]

\* from quote = ... on
comp_put(s, fnm, end) ==
  IF (s.pq \/ quote_needed(fnm, end)) /\ ~s.fnoq
    THEN comp_name([insert_chars(s, s.path_pos, <<"\"">>)
                    EXCEPT !.fname_pos = @ + 1, !.pos = @ + 1, !.fnoq = TRUE],
                   fnm, end, 1)
  ELSE IF ~(s.pq \/ quote_needed(fnm, end)) /\ s.fnoq
    THEN comp_name([remove_chars(s, s.path_pos, 1)
                    EXCEPT !.fname_pos = @ - 1, !.pos = @ - 1, !.fnoq = FALSE],
                   fnm, end, 0)
  ELSE comp_name(s, fnm, end, IF s.pq \/ quote_needed(fnm, end) THEN 1 ELSE 0)

\* a continued completion moves along the ring
comp_cycle(s, k) ==
  comp_put([(IF k = 0 THEN ring(s) ELSE s) EXCEPT !.fnp = k],
           RingLine(s, k), Len(RingLine(s, k)))

\* a new completion after the quoting flags are set; end is the value of
\* find_files
comp_first(s, end) ==
  IF s.fname_cnt = 1 \/ end = -2 \/ s.fn \in {"CycleBack", "CycleDirBack"}
    THEN IF s.fname_cnt # 1 /\ s.fn \in {"List", "ListDir"}
           THEN [s EXCEPT !.fnp = 0]
         ELSE IF s.fn \in {"CycleBack", "CycleDirBack"}
           THEN comp_put([s EXCEPT !.fnp = s.fname_cnt,
                                   !.compl = IF s.fname_cnt = 1 THEN 0 ELSE @],
                         s.fname.names[s.fname_cnt],
                         Len(s.fname.names[s.fname_cnt]))
         ELSE comp_put([s EXCEPT !.fnp = 1,
                                 !.compl = IF s.fname_cnt = 1 THEN 0 ELSE @],
                       s.fname.names[1], Len(s.fname.names[1]))
    ELSE comp_put([s EXCEPT !.fnp = 0], s.fname.names[1], end)

\* a new completion; f is what find_files left
comp_new(f) ==
  IF f.rv = -1 THEN [ring(f) EXCEPT !.compl = 0]
  ELSE IF f.found_quote
    THEN comp_first([f EXCEPT !.fnoq = TRUE, !.pq = TRUE, !.path_pos = @ - 1],
                    f.rv)
  ELSE comp_first(
         [f EXCEPT !.fnoq = FALSE,
                   !.pq = /\ f.rv >= 0
                          /\ \E i \in 1..Len(f.fname.names) :
                               /\ Len(f.fname.names[i]) > f.rv
                               /\ Chr(f.fname.names[i], f.rv) \in QUOTE_FNAME],
         f.rv)

\* no dialog is shown
NoSel == [offset |-> 0, path |-> <<>>, files |-> <<>>]

\* the cases after name |= 2 and compl |= 2
comp_case(s) ==
  IF s.compl = 2 \/ s.name = 1 \/ s.name = 2
    THEN comp_new(find_files([s EXCEPT !.call.op = "find_files"],
                             IF s.name >= 2 THEN 0 ELSE 1, NoSel))
  ELSE IF s.fn \in {"List", "ListDir"} THEN s
  ELSE IF s.fn \in {"Cycle", "CycleDir"}
    THEN comp_cycle(s, (s.fnp + 1) % (s.fname_cnt + 1))
  ELSE comp_cycle(s, (s.fnp + s.fname_cnt) % (s.fname_cnt + 1))

fn_Complete(s) ==
  comp_case([s EXCEPT !.name = IF s.fn \in {"List", "Cycle", "CycleBack"}
                                 THEN Or2(@) ELSE @,
                      !.compl = Or2(@)])

\* insert_chars at the cursor, which then moves by the length of str
ins_adv(s, str) == [insert_chars(s, s.pos, str) EXCEPT !.pos = @ + Len(str)]

\* the while loop over the selected files
RECURSIVE sel_loop(_, _, _)
sel_loop(s, files, path) ==
  IF files = <<>> THEN s
  ELSE IF quote_needed(path, Len(path)) \/ quote_needed(files[1], Len(files[1]))
    THEN sel_loop(ins_adv(ins_adv(ins_adv(ins_adv(s, <<"\"">>), path), files[1]),
                          <<"\"", " ">>),
                  Tail(files), path)
  ELSE sel_loop(ins_adv(ins_adv(ins_adv(s, path), files[1]), <<" ">>),
                Tail(files), path)

\* SelectFiles after find_files; sel.path is the path make_relative gives for
\* the directory of the selected files
sel_found(f, sel) ==
  IF f.rv = 0 THEN f
  ELSE IF f.found_quote
    THEN sel_loop([remove_chars(f, f.path_pos - 1, f.pos - f.path_pos + 1)
                   EXCEPT !.path_pos = @ - 1, !.pos = f.path_pos - 1],
                  sel.files, sel.path)
  ELSE sel_loop([remove_chars(f, f.path_pos, f.pos - f.path_pos)
                 EXCEPT !.pos = f.path_pos],
                sel.files, sel.path)

fn_SelectFiles(s, sel) == sel_found(find_files(s, -1, sel), sel)

\* pos = line.len
to_end(r) == [r EXCEPT !.pos = Len(r.line)]

fn_VarSubst(s, freed) ==
  to_end(pop_macro(expand_symbol(expand_macro(
    associate(expand_vars(expand_braces(s), TRUE)), freed))))

----------------------------------------------------------------------------
(* edit_line: the cases Play and Record, and the recording of the steps.    *)

\* case Play; key is NULL when the step was not read from the keyboard
fn_Play(s) ==
  IF find_macro(s, s.key) = 0 THEN [s EXCEPT !.mac = 0]
  ELSE IF MacroOf(s, s.key).len <= 0
    THEN [copy_chars([s EXCEPT !.mac = s.key], MacroOf(s, s.key).line)
          EXCEPT !.done = TRUE]
  ELSE [s EXCEPT !.mac = s.key]

\* the length of the prompt of case Record
RecordPrompt == 29

\* the recording starts on the key that case Record has read
record_start(s, tkey) ==
  set_display_marks([add_macro(s, tkey) EXCEPT !.recording = TRUE,
                                               !.rec_mac = tkey,
                                               !.keymap[tkey] = "Record"],
                    0, Len(s.line))

\* case Record after the test of recording; tkey is the key get_key returns
record_key(s, tkey) ==
  IF tkey # 0 /\ s.keymap[tkey] \notin {"Erase", "Enter", "Record"}
    THEN record_start(s, tkey)
    ELSE s

fn_Record(s, tkey) ==
  IF s.recording THEN s
  ELSE record_key([s EXCEPT !.dispbeg = s.pos,
                            !.dispend = s.pos + RecordPrompt,
                            !.key = tkey,
                            !.ch = IF tkey = 0 THEN "a" ELSE KeyCh[tkey],
                            !.fn = "Ignore"],
                  tkey)

\* the recording has stopped
record_end(s) ==
  set_display_marks(end_macro([s EXCEPT !.recording = FALSE], s.rec_mac),
                    0, Len(s.line))

\* the step is appended to the macro being recorded
record_step(s, i) ==
  [s EXCEPT !.macro_head[i].func = Append(@, [ch |-> s.ch, fn |-> s.fn]),
            !.macro_head[i].len = @ + 1]

\* the recording goes on after the step
record_goes_on(r) == r

record_done(r) == IF r.done THEN record_end(r) ELSE r

\* the step that DelLeft has undone is taken from the macro
record_undo(s, i) ==
  [s EXCEPT !.macro_head[i].func = Sub(@, 0, Len(@) - 1),
            !.macro_head[i].len = @ - 1]

\* the recording of the iteration, for the i-th macro
record_at(s, i) ==
  IF s.fn = "Record" THEN record_end(s)
  ELSE IF /\ s.fn = "DelLeft"
          /\ s.macro_head[i].len > 0
          /\ s.macro_head[i].func[s.macro_head[i].len].fn = "Default"
    THEN record_undo(s, i)
  ELSE IF s.fn # "Ignore" THEN record_done(record_step(s, i))
  ELSE s

\* the part of the iteration after the switch that records the step
edit_record(s) ==
  IF s.recording THEN record_at(s, find_macro(s, s.rec_mac)) ELSE s

----------------------------------------------------------------------------
(* edit_line: one iteration of the while loop. *)

\* a top of the loop at which the state of completion does not decay
edit_prologue_kept(s, ch, fn) ==
  [s EXCEPT !.ch = ch, !.fn = fn, !.bell = FALSE,
            !.dispbeg = 0, !.dispend = 0,
            !.compl = IF @ = 0 THEN 0 ELSE 1,
            !.name = @ \div 2, !.empty = @ \div 2,
            !.recall = IF @ = 1 /\ s.cont_recall = 1 THEN 1 ELSE 0,
            !.cont_recall = 0]

\* the top of the loop after the key is read: the marks are reset and the
\* states of completion, empty search and auto-recall decay
edit_prologue(s, ch, fn) ==
  [s EXCEPT !.ch = ch, !.fn = fn, !.bell = FALSE,
            !.dispbeg = 0, !.dispend = 0,
            !.compl = @ \div 2, !.name = @ \div 2, !.empty = @ \div 2,
            !.recall = IF @ = 1 /\ s.cont_recall = 1 THEN 1 ELSE 0,
            !.cont_recall = 0]

\* the switch on chfn.fn; in holds what the step reads from its environment
edit_switch(s, in) ==
  CASE s.fn = "Ignore" -> s
    [] s.fn = "Quote" -> fn_Quote(s, in.qch)
    [] s.fn = "Default" -> fn_Default(s)
    [] s.fn = "CharLeft" -> fn_CharLeft(s)
    [] s.fn = "CharRight" -> fn_CharRight(s)
    [] s.fn \in {"WordLeft", "DelWordLeft"} -> fn_WordLeft(s)
    [] s.fn \in {"WordRight", "DelWordRight"} -> fn_WordRight(s)
    [] s.fn = "StringLeft" -> fn_StringLeft(s)
    [] s.fn = "StringRight" -> fn_StringRight(s)
    [] s.fn = "BegLine" -> fn_BegLine(s)
    [] s.fn = "EndLine" -> fn_EndLine(s)
    [] s.fn = "DelLeft" -> fn_DelLeft(s)
    [] s.fn = "DelRight" -> fn_DelRight(s)
    [] s.fn = "DelArg" -> fn_DelArg(s)
    [] s.fn = "DelBegLine" -> fn_DelBegLine(s)
    [] s.fn = "DelEndLine" -> fn_DelEndLine(s)
    [] s.fn = "StoreErase" -> fn_StoreErase(s)
    [] s.fn = "Erase" -> fn_Erase(s)
    [] s.fn = "DelEndExec" -> fn_DelEndExec(s)
    [] s.fn = "Enter" -> fn_Enter(s)
    [] s.fn = "Wipe" -> fn_Wipe(s)
    [] s.fn = "Transpose" -> fn_Transpose(s)
    [] s.fn = "FirstLine" -> fn_FirstLine(s)
    [] s.fn = "LastLine" -> fn_LastLine(s)
    [] s.fn = "PrevLine" -> fn_PrevLine(s)
    [] s.fn = "NextLine" -> fn_NextLine(s)
    [] s.fn \in {"SearchBack", "SearchForw"} -> fn_Search(s)
    [] s.fn = "CmdSep" -> fn_CmdSep(s)
    [] s.fn = "AutoRecall" -> fn_AutoRecall(s)
    [] s.fn = "MacroToggle" -> fn_MacroToggle(s)
    [] s.fn = "InsOvr" -> fn_InsOvr(s)
    [] s.fn \in Completions -> fn_Complete(s)
    [] s.fn = "SelectFiles" -> fn_SelectFiles(s, in.sel)
    [] s.fn = "Play" -> fn_Play(s)
    [] s.fn = "Record" -> fn_Record(s, in.tkey)
    [] s.fn = "VarSubst" -> fn_VarSubst(s, in.freed)

\* the insertion of the literal character that ends the iteration
edit_literal(a) == IF a.fn = "Default" THEN default_char(a) ELSE a

\* one iteration: prologue, switch, recording, literal character
edit_step(s, ch, fn, in) ==
  edit_literal(edit_record(edit_switch(edit_prologue(s, ch, fn), in)))

\* an iteration for a key read from the keyboard: a character key when key
\* is NULL
edit_key(s, key, ch, in) ==
  edit_step([s EXCEPT !.key = key],
            IF key = 0 THEN ch ELSE KeyCh[key],
            IF key = 0 THEN "Default" ELSE s.keymap[key], in)

\* the step the playback takes from the macro; past the end of the steps it
\* is whatever the memory holds
mac_chfn(s, junk) ==
  IF find_macro(s, s.mac) = 0 THEN junk
  ELSE IF MacroOf(s, s.mac).len = 1 THEN MacroOf(s, s.mac).func[1]
  ELSE IF s.mac_pos < Len(MacroOf(s, s.mac).func)
    THEN MacroOf(s, s.mac).func[s.mac_pos + 1]
  ELSE junk

mac_ub(s) ==
  \/ find_macro(s, s.mac) = 0
  \/ /\ MacroOf(s, s.mac).len # 1
     /\ s.mac_pos >= Len(MacroOf(s, s.mac).func)

\* the playback moves on by one step
mac_next(s) ==
  IF find_macro(s, s.mac) # 0 /\ s.mac_pos + 1 = MacroOf(s, s.mac).len
    THEN [s EXCEPT !.mac = 0, !.mac_pos = 0, !.key = 0]
    ELSE [s EXCEPT !.mac_pos = @ + 1, !.key = 0]

\* an iteration for a step of the macro being played
edit_play(s, junk, in) ==
  edit_step(mac_next([s EXCEPT !.ub = @ \/ mac_ub(s)]),
            mac_chfn(s, junk).ch, mac_chfn(s, junk).fn, in)

----------------------------------------------------------------------------
(* MyReadConsoleW.  The function waits in edit_line for keys; pc tells      *)
(* where it is: "idle" outside the function, "edit" in the loop of         *)
(* edit_line (where tells for whom), "expand" at the top of the inner       *)
(* do-while loop, "run" in between.                                         *)

MainFrame == [fn |-> "MyReadConsoleW", mac |-> <<>>]

\* the carriage return and the line feed are stored at line.len and after
\* it: past the end of the buffer when line.len exceeds max
read_return(s) ==
  [s EXCEPT !.ub = @ \/ Len(s.line) > s.max,
            !.line = @ \o <<"\r", "\n">>,
            !.out = [status |-> "returned", txt |-> s.line \o <<"\r", "\n">>,
                     count |-> Len(s.line) + 2],
            !.check_break = 0, !.where = <<>>, !.pc = "idle"]

\* a line has been read for the outer do-while loop
read_got(n) ==
  IF n.option.disable_macro # 0
    THEN read_return(n)
    ELSE [multi_cmd(n) EXCEPT !.pc = "expand", !.where = <<>>]

read_after(n) ==
  IF n.pc = "edit" THEN [n EXCEPT !.where = <<MainFrame>>] ELSE read_got(n)

\* get_next_line for the outer do-while loop
read_next(s, freed) == read_after(get_next_line(s, freed))

\* the test of the outer loop, after internal_cmd
read_cmd(i, freed) ==
  IF i.pc = "edit" THEN i
  ELSE IF i.rv = 1 THEN read_next(i, freed)
  ELSE read_return(expand_vars(i, FALSE))

read_internal(s, freed) == read_cmd(internal_cmd(s, freed), freed)

\* the test of the inner loop
read_macro(m, freed) ==
  IF m.rv = 1 THEN [m EXCEPT !.pc = "expand"] ELSE read_internal(m, freed)

read_symbol(y, freed) ==
  IF y.rv = 1 THEN [y EXCEPT !.pc = "expand"]
              ELSE read_macro(expand_macro(y, freed), freed)

read_assoc(a, freed) ==
  IF a.rv = 1 THEN [a EXCEPT !.pc = "expand"]
              ELSE read_symbol(expand_symbol(a), freed)

\* the body of the inner loop after the test for '@'
read_ignore(d, freed) ==
  IF d.line # <<>> /\ d.line[1] = d.option.ignore_char
    THEN read_internal(remove_chars(d, 0, 1), freed)
    ELSE read_assoc(associate(expand_braces(d)), freed)

\* one iteration of the inner loop and, when it ends the loop, the program
\* up to the next iteration or the next wait
read_expand(s, freed) ==
  IF s.check_break > 1 THEN read_internal(s, freed)
  ELSE IF s.line # <<>> /\ s.line[1] = "@"
    THEN read_ignore(dosify(remove_chars(s, 0, 1)), freed)
  ELSE read_ignore(s, freed)

\* edit_line has returned to execute_defm
defm_back(d, freed) == IF d.pc = "edit" THEN d ELSE read_next(d, freed)

\* edit_line has returned
edit_return(k, freed) ==
  IF k.where[1].fn = "execute_defm"
    THEN defm_back(defm_got([k EXCEPT !.pc = "run", !.where = <<>>],
                            k.where[1].mac, freed),
                   freed)
    ELSE read_got([k EXCEPT !.pc = "run", !.where = <<>>])

\* the end of an iteration of the loop of edit_line
edit_done(k, freed) ==
  IF k.done THEN edit_return(k, freed) ELSE [k EXCEPT !.pc = "edit"]

\* the function from the test of check_break to the first wait
read_file(s, n, freed) ==
  IF s.cmdname.open
    THEN read_next([read_cmdfile(s, freed)
                    EXCEPT !.cmdname = NoFile, !.max = n - 2], freed)
    ELSE read_next([s EXCEPT !.max = n - 2], freed)

read_enter(s, n, freed) ==
  IF s.check_break # 0
    THEN read_file([s EXCEPT !.macro_stk = <<>>, !.mcmd = NoText,
                             !.check_break = 1], n, freed)
    ELSE read_file([s EXCEPT !.check_break = 1], n, freed)

\* the function after the test of option.disable_cmdkey; console tells that
\* GetConsoleScreenBufferInfo succeeds
read_call(s, n, console, freed) ==
  IF s.enabled /\ n > 1 /\ console
    THEN read_enter(s, n, freed)
    ELSE [s EXCEPT !.out = [status |-> "passed", txt |-> <<>>, count |-> 0]]

MyReadConsoleW(s, n, console, freed) ==
  IF s.option.disable_cmdkey # 0
    THEN read_call([s EXCEPT !.enabled = ~@, !.option.disable_cmdkey = 0],
                   n, console, freed)
    ELSE read_call(s, n, console, freed)

----------------------------------------------------------------------------
(* The steps of the program between two waits, as actions.                  *)

\* what a step starts from: the observations of the previous step are gone
Fresh(s, n, typed) ==
  [s EXCEPT !.call = [NoCall EXCEPT !.pos = n, !.before = typed],
            !.ub = FALSE, !.bell = FALSE, !.out = NoOut, !.pc = "run"]

\* a step that ran into undefined behaviour may also end the process
Step(r) ==
  \E v \in {r} : Set(v) \/ (v.ub /\ Set([v EXCEPT !.pc = "crashed"]))

\* the inputs of edit_step that a plain key does not use
NoIn ==
  [qch |-> "a", sel |-> NoSel, freed |-> [kept |-> TRUE, rest |-> <<>>],
   tkey |-> 0]

\* what a freed list of lines can hold when it is read
Freed == {[kept |-> TRUE, rest |-> <<>>], [kept |-> FALSE, rest |-> <<<<"?">>>>]}

\* the keys that type txt, the first i - 1 of them typed already
RECURSIVE type_chars(_, _, _)
type_chars(s, txt, i) ==
  IF i > Len(txt) THEN s
  ELSE type_chars(edit_step(s, txt[i],
                            IF txt[i] = CMDSEP THEN "CmdSep" ELSE "Default",
                            NoIn),
                  txt, i + 1)

\* the keys that type txt, and Enter
type_line(s, txt) == edit_step(type_chars(s, txt, 1), "\r", "Enter", NoIn)

\* the host calls ReadConsoleW for n characters
Call(n, console) ==
  /\ pc = "idle"
  /\ \E freed \in Freed :
       Step(MyReadConsoleW(Fresh(Cur, n, <<>>), n, console, freed))

\* the user types the line txt and Enter
KeyLine(txt) ==
  /\ pc = "edit"
  /\ \E freed \in Freed :
       Step(edit_done(type_line(Fresh(Cur, 0, txt), txt), freed))

\* one iteration of the inner loop of MyReadConsoleW
Expand ==
  /\ pc = "expand"
  /\ \E freed \in Freed : Step(read_expand(Fresh(Cur, 0, <<>>), freed))

\* CMDkey.exe names a command file for the next request
CmdFile(lines) ==
  /\ pc = "idle"
  /\ ~cmdname.open
  /\ Set([Cur EXCEPT !.cmdname = [open |-> TRUE, lines |-> lines]])

\* the first word of txt is an internal command
IsInternal(txt) ==
  /\ Len(txt) >= CMD_LEN
  /\ Len(txt) > CMD_LEN => isblank(txt[CMD_LEN + 1])
  /\ search_cfg(Sub(txt, 0, CMD_LEN), internal) # <<>>

Range(f) == {f[i] : i \in DOMAIN f}

----------------------------------------------------------------------------
(* SpecDef: the definition commands typed at the prompt and read from a     *)
(* command file.                                                            *)

DEFS_A_B == <<"d", "e", "f", "s", " ", "a", " ", "b">>
DEFS_A_X == <<"d", "e", "f", "s", " ", "A", " ", "x">>
DEFM_A_X == <<"d", "e", "f", "m", " ", "A", " ", "x">>
DEFM_A   == <<"d", "e", "f", "m", " ", "a">>
DELS_A   == <<"d", "e", "l", "s", " ", "A">>
DELM_A   == <<"d", "e", "l", "m", " ", "a">>
RSTS     == <<"r", "s", "t", "s">>
RSTM     == <<"r", "s", "t", "m">>
PLAIN    == <<"x">>

DefLines ==
  {DEFS_A_B, DEFM_A_X, DEFM_A, ENDM, DELS_A, DELM_A, RSTS, RSTM, PLAIN}

DefFile == <<DEFS_A_X, DEFM_A, PLAIN>>

\* the length of the macro bodies typed
MaxBody == 2

DefCap == 12

\* the macro being defined by the execute_defm that waits for a line
Defining == mac_head[MacIndex(Cur, where[1].mac)]

InitDef ==
  Is([Start EXCEPT !.option = [DefaultOption EXCEPT !.histsize = MaxHist]])

DefCall == Call(DefCap, TRUE)

\* a macro body is made of plain lines and is ended at MaxBody lines
DefKey ==
  \E txt \in DefLines :
    /\ where # <<>> /\ where[1].fn = "execute_defm" =>
         /\ txt \in {PLAIN, ENDM}
         /\ Len(Defining.lines) >= MaxBody => txt = ENDM
    /\ KeyLine(txt)

DefFileNamed == CmdFile(DefFile)

NextDef == DefCall \/ DefKey \/ Expand \/ DefFileNamed

SpecDef == InitDef /\ [][NextDef]_vars

\* C6: in every state reached by typing defs, defm (with the text on the
\* line or with a body of lines ended by endm), dels, delm, rsts and rstm
\* lines, or by reading them from a command file, no name of the symbol list
\* equals a name of the macro list when compared without case.
C6_Exclusive ==
  \A i \in 1..Len(sym_head) : Matches(mac_head, sym_head[i].name) = {}

\* "defs a b" and then "defm A x" were typed: A is a macro and a is no
\* longer a symbol
C6_Witness ==
  /\ pc = "edit"
  /\ history = <<DEFS_A_B, DEFM_A_X>>
  /\ Matches(mac_head, <<"a">>) # {}
  /\ sym_head = <<>>

----------------------------------------------------------------------------
(* SpecRead: lines typed at the prompt and read from a command file while   *)
(* a macro of several lines is defined.                                     *)

DELM_M == <<"d", "e", "l", "m", " ", "m">>
DELH_X == <<"d", "e", "l", "h", " ", "x">>
RUN_M  == <<"m">>
RUN_MB == <<"m", CMDSEP, "b">>

\* a macro whose second line holds a command separator
MacSep == [name |-> <<"m">>, lines |-> <<<<"x">>, <<"y", CMDSEP, "z">>>>]

\* a macro whose first line deletes the macro
MacDel == [name |-> <<"m">>, lines |-> <<DELM_M, <<"x">>, <<"y">>>>]

ReadLines == {RUN_M, RUN_MB, DEFS_A_B, DELH_X, PLAIN}

ReadFile == <<DEFS_A_B, PLAIN>>

InitRead ==
  \E dm \in {MacSep, MacDel} :
    Is([Start EXCEPT !.mac_head = <<dm>>,
                     !.option = [DefaultOption EXCEPT !.histsize = MaxHist]])

ReadCall == Call(DefCap, TRUE)

ReadKey == \E txt \in ReadLines : KeyLine(txt)

ReadFileNamed == CmdFile(ReadFile)

NextRead == ReadCall \/ ReadKey \/ Expand \/ ReadFileNamed

SpecRead == InitRead /\ [][NextRead]_vars

\* the internal command that txt starts with, <<>> when there is none
CmdWord(txt) ==
  IF IsInternal(txt) THEN search_cfg(Sub(txt, 0, CMD_LEN), internal) ELSE <<>>

\* C7 (as stated): after a step that ran a line as an internal command, that
\* line is not an entry of the history.
C7_Stated ==
  [][call'.cmd # <<>> =>
       \A h \in 1..Len(history') : history'[h] # call'.cmd]_vars

\* C7: Enter stores a typed internal command of at least min_length
\* characters as the most recent history entry before the line is
\* recognised; running a typed internal command other than delh and rsth
\* leaves that entry in the history; and a request that reads a command
\* file adds to the history only lines of the file that are not internal
\* commands.
C7_History ==
  [][/\ (IsInternal(call'.before) /\ Len(call'.before) >= option.min_length)
          => (history' # <<>> /\ history'[Len(history')] = call'.before)
     /\ ( /\ call'.kbd
          /\ CmdWord(call'.cmd) \notin {<<>>, <<"d", "e", "l", "h">>,
                                        <<"r", "s", "t", "h">>}
          /\ call'.cmd \in Range(history) )
          => call'.cmd \in Range(history')
     /\ (pc = "idle" /\ cmdname.open /\ out'.status # "passed")
          => \A h \in Range(history') :
               \/ h \in Range(history)
               \/ h \in Range(cmdname.lines) /\ ~IsInternal(h)]_vars

\* "defs a b" was typed and run: a is a symbol and the line is the most
\* recent history entry
C7_Witness ==
  /\ call.kbd
  /\ call.cmd = DEFS_A_B
  /\ history # <<>> /\ history[Len(history)] = DEFS_A_B
  /\ Matches(sym_head, <<"a">>) # {}

\* the position of the first command separator of txt, counted from 1
SepAt(txt) == Least({i \in 1..Len(txt) : txt[i] = CMDSEP})

\* C8 (as stated): a typed line with a command separator (and without
\* quotes or escape characters) is cut at the first separator and the rest
\* is queued; the queued text stays queued until a step takes it as the
\* next line, and while it is queued no step reads the keyboard without
\* taking it first.
C8_Stated ==
  [][/\ (Holds(call'.before, CMDSEP) /\ pc' = "expand")
          => /\ line' = SubSeq(call'.before, 1, SepAt(call'.before) - 1)
             /\ mcmd' = [txt |-> SubSeq(call'.before,
                                        SepAt(call'.before) + 1,
                                        Len(call'.before)),
                         null |-> FALSE]
     /\ (~mcmd.null /\ mcmd' # mcmd)
          => (call'.mc # <<>> /\ call'.mc[1] = mcmd.txt)
     /\ (~mcmd.null /\ call'.op = "edit_line") => call'.mc # <<>>]_vars

\* C9 (as stated): a request made while a frame is on the macro stack (and
\* no command file is named) delivers the line of the frame's macro that
\* follows the lines delivered so far, and pops the frame when that was the
\* last line.
C9_Stated ==
  [][(pc = "idle" /\ pc' # "idle" /\ macro_stk # <<>> /\ ~cmdname.open) =>
       \E j \in 1..Len(mac_head) :
         /\ mac_head[j].name = macro_stk[1].owner
         /\ \E k \in 1..Len(mac_head[j].lines) :
              /\ SubSeq(mac_head[j].lines, k, Len(mac_head[j].lines))
                   = macro_stk[1].rest
              /\ call'.str # <<>>
              /\ call'.str[1] = mac_head[j].lines[k]
              /\ macro_stk' = IF k = Len(mac_head[j].lines)
                                THEN Tail(macro_stk)
                                ELSE [macro_stk EXCEPT ![1].rest = Tail(@)]
              /\ pc' # "crashed"]_vars

----------------------------------------------------------------------------
(* SpecLoop: symbols defined at the prompt and lines that name them; the    *)
(* program takes every iteration of the inner loop that it can take.        *)

DEFS_B_A == <<"d", "e", "f", "s", " ", "b", " ", "a">>
RUN_A    == <<"a">>

LoopLines == {DEFS_A_B, DEFS_B_A, DELS_A, RUN_A, PLAIN}

InitLoop ==
  Is([Start EXCEPT !.option = [DefaultOption EXCEPT !.histsize = MaxHist]])

LoopCall == Call(DefCap, TRUE)

LoopKey == \E txt \in LoopLines : KeyLine(txt)

NextLoop == LoopCall \/ LoopKey \/ Expand

\* the program goes on when it can: at the top of the loop the next
\* iteration is the only step, so weak fairness of Expand says that the
\* program leaves the loop again and again or takes iterations for ever
ExpandFair == []<>(pc # "expand") \/ []<><<pc = "expand">>_vars

\* the host calls again after every return
SpecLoop == InitLoop /\ [][NextLoop]_vars /\ WF_vars(LoopCall) /\ ExpandFair

\* C10 (as stated): whenever the program is at the top of the inner loop of
\* MyReadConsoleW, it leaves the loop later: no rule fires any more and the
\* request returns or the next line is fetched.
C10_Stated == (pc = "expand") ~> (pc # "expand")

----------------------------------------------------------------------------
(* SpecEdit: requests of every kind and, for the intercepted ones, the keys *)
(* of a short line typed into a small buffer.                               *)

\* the capacity of the intercepted requests
EdCap == 5

EdFns == {"Default", "CharLeft", "DelLeft", "Cycle", "DelEndLine", "Enter"}

\* the keys are read while the cursor and the length are at most MaxPos
MaxPos == 6

\* no line of this specification is long enough to be stored in the history
InitEdit ==
  Is([Start EXCEPT !.option = [DefaultOption EXCEPT !.min_length = MaxPos + 4]])

EdCall == \E n \in {1, EdCap} : \E console \in BOOLEAN : Call(n, console)

\* a key is read by edit_line and dispatched
EdKey ==
  /\ pc = "edit"
  /\ pos <= MaxPos /\ Len(line) <= MaxPos
  /\ \E fn \in EdFns : \E freed \in Freed :
       Step(edit_done(edit_step(Fresh(Cur, 0, <<>>), "a", fn, NoIn), freed))

\* CMDkey.exe asks this instance to switch itself off or on
EdToggle ==
  /\ pc = "idle"
  /\ option.disable_cmdkey = 0
  /\ Set([Cur EXCEPT !.option.disable_cmdkey = 1])

NextEdit == EdCall \/ EdKey \/ Expand \/ EdToggle

SpecEdit == InitEdit /\ [][NextEdit]_vars

\* C2 (as stated): whenever edit_line waits for a key, the cursor is inside
\* the line: 0 <= pos <= line.len.
C2_Stated == pc = "edit" => (0 <= pos /\ pos <= Len(line))

\* C3 (as stated): a request that returns a line returns it with CR LF at
\* its end and with a count that is at most the n of the request (max + 2);
\* a request made while the editor is disabled, or with n <= 1, is passed on.
C3_Stated ==
  /\ out.status = "returned" =>
       /\ out.count = Len(out.txt)
       /\ out.count >= 2
       /\ out.txt[out.count - 1] = "\r"
       /\ out.txt[out.count] = "\n"
       /\ out.count <= max + 2
  /\ (call.pos # 0 /\ (~enabled \/ call.pos <= 1)) => out.status = "passed"

----------------------------------------------------------------------------
(* SpecBuf: the buffer operations called with positions inside the line,   *)
(* and the literal-character step of edit_line, from every line and         *)
(* capacity within the bounds.                                              *)

BufAlphabet == {"a", "b"}

\* the strings handed to the operations; LongText stands for the oversized ones
BufTexts == TextsUpTo({"b"}, MaxStr)

\* a text longer than every capacity of the model
LongText == [i \in 1..(MaxCap + 2) |-> "a"]

InitBuf ==
  \E m \in 1..MaxCap : \E l \in TextsUpTo(BufAlphabet, m) : \E o \in {0, 1} :
    Is([Start EXCEPT !.pc = "buf", !.max = m, !.line = l, !.ovr = o,
                     !.history = <<LongText>>, !.histsize = 1])

Called(op, p, old, str) ==
  [op |-> op, pos |-> p, old |-> old, str |-> str, before |-> line]

Quiet(s) == [s EXCEPT !.bell = FALSE]

BufCopy ==
  /\ pc = "buf"
  /\ \E str \in BufTexts \cup {LongText} :
       Set([copy_chars(Quiet(Cur), str) EXCEPT !.call = Called("copy", 0, 0, str)])

BufRemove ==
  /\ pc = "buf"
  /\ \E p \in 0..Len(line) : \E cnt \in 0..(Len(line) - p) :
       Set([remove_chars(Quiet(Cur), p, cnt)
              EXCEPT !.call = Called("remove", p, cnt, <<>>)])

BufInsert ==
  /\ pc = "buf"
  /\ \E p \in 0..Len(line) : \E str \in BufTexts :
       Set([insert_chars(Quiet(Cur), p, str)
              EXCEPT !.call = Called("insert", p, 0, str)])

BufReplace ==
  /\ pc = "buf"
  /\ \E p \in 0..Len(line) : \E old \in 0..(Len(line) - p) : \E str \in BufTexts :
       Set([replace_chars(Quiet(Cur), p, old, str)
              EXCEPT !.call = Called("replace", p, old, str)])

\* a literal character dispatched by edit_line with the cursor inside the line
BufDefault ==
  /\ pc = "buf"
  /\ \E p \in 0..Len(line) : \E ch \in {"b"} :
       Set([edit_step([Cur EXCEPT !.pos = p], ch, "Default", [qch |-> ch])
              EXCEPT !.call = Called("default", p, 0, <<ch>>)])

NextBuf == BufCopy \/ BufRemove \/ BufInsert \/ BufReplace \/ BufDefault

SpecBuf == InitBuf /\ [][NextBuf]_vars

\* the text that results from putting the part of str that fits at p
Fitted(before, p, str, cap) ==
  Sub(before, 0, p) \o Sub(str, 0, Min(Len(str), cap - Len(before)))
                    \o Sub(before, p, Len(before))

\* C1: after every buffer operation with in-range positions and after every
\* literal-character step, line.len is at most max; an insertion (by
\* insert_chars, by the growing branch of replace_chars, by copy_chars or by
\* a typed character) that does not fit stores exactly the part that fits
\* and rings the bell, and one that fits stores everything silently.
C1_LenWithinMax ==
  /\ Len(line) <= max
  /\ ~ub
  /\ call.op = "insert" =>
       /\ line = Fitted(call.before, call.pos, call.str, max)
       /\ bell = (Len(call.before) + Len(call.str) > max)
  /\ call.op = "copy" =>
       /\ line = Sub(call.str, 0, Min(Len(call.str), max))
       /\ bell = (Len(call.str) > max)
  /\ call.op = "remove" =>
       /\ line = Sub(call.before, 0, call.pos)
                   \o Sub(call.before, call.pos + call.old, Len(call.before))
       /\ ~bell
  /\ call.op = "replace" =>
       LET rest == Sub(call.before, 0, call.pos)
                     \o Sub(call.before, call.pos + call.old, Len(call.before))
       IN  /\ line = Fitted(rest, call.pos, call.str, max)
           /\ bell = (Len(rest) + Len(call.str) > max)
  /\ call.op = "default" =>
       IF ovr = 1 /\ call.pos < Len(call.before)
         THEN /\ line = [call.before EXCEPT ![call.pos + 1] = call.str[1]]
              /\ ~bell
         ELSE /\ line = Fitted(call.before, call.pos, call.str, max)
              /\ bell = (Len(call.before) = max)

\* an insert_chars call that was cut short with the bell, the line now full
C1_Witness ==
  /\ call.op = "insert"
  /\ Len(call.before) + Len(call.str) > max
  /\ Len(call.before) < max
  /\ Len(line) = max
  /\ bell

----------------------------------------------------------------------------
(* SpecHist: add_to_history called with every line of HistTexts, under     *)
(* every history size and minimum length within the bounds.                *)

HistTexts ==
  {<<>>, <<"a">>, <<"A">>, <<"a", "b", "c">>, <<"x", "y", "z">>}

InitHist ==
  \E hs \in 0..MaxHist : \E ml \in 0..1 :
    Is([Start EXCEPT !.pc = "hist", !.max = 3,
                     !.option = [DefaultOption EXCEPT !.histsize = hs,
                                                      !.min_length = ml]])

\* call.pos is the number of entries before the call, call.old is 1 when the
\* line was already an entry
HistAdd ==
  /\ pc = "hist"
  /\ \E l \in HistTexts :
       Set([add_to_history([Cur EXCEPT !.line = l])
              EXCEPT !.call = [op |-> "add", pos |-> Len(history),
                               old |-> IF \E h \in 1..Len(history) :
                                            history[h] = l THEN 1 ELSE 0,
                               str |-> l, before |-> <<>>]])

NextHist == HistAdd

SpecHist == InitHist /\ [][NextHist]_vars

NoTwoEqual(h) == \A i, j \in 1..Len(h) : h[i] = h[j] => i = j

\* C4: every add_to_history call leaves a history without two equal entries;
\* a call with a line that is already an entry keeps the number of entries,
\* makes that entry the last (most recent) one and keeps the order of the
\* others.
C4_NoDuplicates ==
  [][/\ NoTwoEqual(history')
     /\ \A h \in 1..Len(history) :
          history[h] = line' =>
            /\ Len(history') = Len(history)
            /\ history' = Append(Without(history, h), line')]_vars

\* abc, xyz, abc: the history is xyz, abc after abc was submitted again
C4_Witness ==
  /\ call.op = "add"
  /\ call.old = 1
  /\ call.str = <<"a", "b", "c">>
  /\ history = <<<<"x", "y", "z">>, <<"a", "b", "c">>>>
  /\ histsize = 2

\* C5 as stated: the number of entries never exceeds option.histsize.
C5_Stated == Len(history) <= option.histsize

\* C5: with a nonzero option.histsize the number of entries never exceeds
\* it, and a call with a storable line that is not an entry, made when the
\* history holds option.histsize entries, removes the first (oldest) entry,
\* appends the line and changes nothing else; with option.histsize zero no
\* entry is ever removed.
C5_Bounded ==
  [][/\ option.histsize # 0 => Len(history') <= option.histsize
     /\ histsize' = Len(history')
     /\ (/\ Len(line') >= option.min_length
         /\ \A h \in 1..Len(history) : history[h] # line')
          => IF option.histsize # 0 /\ Len(history) = option.histsize
               THEN history' = Append(Tail(history), line')
               ELSE history' = Append(history, line')]_vars

\* a new line was added to a full history
C5_Witness ==
  /\ call.op = "add"
  /\ call.old = 0
  /\ option.histsize # 0
  /\ call.pos = option.histsize
  /\ Len(history) = option.histsize
  /\ history[Len(history)] = call.str

----------------------------------------------------------------------------
(* SpecBrace: brace_expansion called once on a line put together from a    *)
(* lead (the text before the prepend), the prepend, the items between the   *)
(* braces, the postpend and a tail (the text after the postpend).  The      *)
(* parts are kept in call: str = <<lead, prepend, postpend, tail>>, mc =    *)
(* the items, before = the line handed to brace_expansion, old = the value  *)
(* it returned.                                                             *)

\* room for every expanded line
BraceCap == 40

BraceLeads ==
  {<<>>, <<"x", " ">>, <<"x", ";">>, <<"x", "|">>, <<"a", ";", "b", "|">>}

BracePres == {<<>>, <<"p">>}

BracePosts == {<<>>, <<"s">>}

BraceTails == {<<>>, <<" ", "d">>, <<",", "d">>, <<"|", "d">>}

BraceItems ==
  {<<<<"a">>>>,
   <<<<"a">>, <<"b">>>>,
   <<<<"a">>, <<"b">>, <<"c">>>>,
   <<<<"a">>, <<"{", "c", ",", "d", "}">>>>,
   <<<<"a">>, <<"\"", "c", ",", "d", "\"">>>>}

\* the items with a comma between them
RECURSIVE CommaList(_, _)
CommaList(items, k) ==
  IF k > Len(items) THEN <<>>
  ELSE (IF k > 1 THEN <<",">> ELSE <<>>) \o items[k] \o CommaList(items, k + 1)

BraceLine(lead, pre, items, post, tail) ==
  lead \o pre \o <<"{">> \o CommaList(items, 1) \o <<"}">> \o post \o tail

\* the parts of the lines a b{1,2}c,d and a;b{1,2}c,d
BraceExamples ==
  {<<lead, <<"b">>, <<<<"1">>, <<"2">>>>, <<"c">>, <<",", "d">>>> :
     lead \in {<<"a", " ">>, <<"a", ";">>}}

BraceParts ==
  (BraceLeads \X BracePres \X BraceItems \X BracePosts \X BraceTails)
    \cup BraceExamples

InitBrace ==
  \E parts \in BraceParts :
    \E lead \in {parts[1]} : \E pre \in {parts[2]} : \E items \in {parts[3]} :
      \E post \in {parts[4]} : \E tail \in {parts[5]} :
      Is([Start EXCEPT
            !.pc = "brace", !.max = BraceCap,
            !.line = BraceLine(lead, pre, items, post, tail),
            !.call = [NoCall EXCEPT
                        !.before = BraceLine(lead, pre, items, post, tail),
                        !.str = <<lead, pre, post, tail>>,
                        !.mc = items]])

\* the return of brace_expansion: the value returned is kept in call.old
brace_returned(r) ==
  [r EXCEPT !.pc = "braced", !.call.op = "brace_expansion", !.call.old = r.rv]

BraceExpand ==
  /\ pc = "brace"
  /\ Step(brace_returned(brace_expansion(Cur)))

NextBrace == BraceExpand

SpecBrace == InitBrace /\ [][NextBrace]_vars

\* prepend + item + postpend for every item from the k-th on, sep between
RECURSIVE Joined(_, _, _, _, _)
Joined(pre, items, post, sep, k) ==
  IF k > Len(items) THEN <<>>
  ELSE (IF k > 1 THEN <<sep>> ELSE <<>>) \o pre \o items[k] \o post
       \o Joined(pre, items, post, sep, k + 1)

\* the last character of BRACE_TERM in txt from position k down, a space
\* when there is none
RECURSIVE LastTerm(_, _)
LastTerm(txt, k) ==
  IF k < 1 THEN " "
  ELSE IF txt[k] \in BRACE_TERM THEN txt[k]
  ELSE LastTerm(txt, k - 1)

\* the character that ended the prepend when it is a separator, else a space
PreTerm(lead) ==
  IF lead # <<>> /\ lead[Len(lead)] \in BRACE_TERM THEN lead[Len(lead)]
  ELSE " "

\* the separator the items are joined by
ItemTerm(lead, tail) ==
  IF LastTerm(lead, Len(lead)) # " " THEN LastTerm(lead, Len(lead))
  ELSE IF tail # <<>> /\ tail[1] \in BRACE_TERM THEN tail[1]
  ELSE " "

\* C11 as stated: the line with two or more items becomes the items, each
\* between prepend and postpend, joined by the separator that ended the
\* prepend (a space when no separator ended it)
C11_Stated ==
  (pc = "braced" /\ Len(call.mc) >= 2) =>
    line = call.str[1]
           \o Joined(call.str[2], call.mc, call.str[3], PreTerm(call.str[1]), 1)
           \o call.str[4]

\* C11: the line with two or more items becomes the items, in their order,
\* each between prepend and postpend; they are joined by the last separator
\* before the prepend or, when that is a space or there is none, by the
\* separator that ends the postpend, or by a space when there is none; a
\* comma in nested braces or in quotes separates nothing; a single item is
\* left as it is
C11_Items ==
  pc = "braced" =>
    IF Len(call.mc) >= 2
      THEN /\ call.old = 1
           /\ ~ub
           /\ line = call.str[1]
                     \o Joined(call.str[2], call.mc, call.str[3],
                               ItemTerm(call.str[1], call.str[4]), 1)
                     \o call.str[4]
      ELSE call.old = 0 /\ line = call.before

C11_Witness ==
  /\ pc = "braced"
  /\ call.before = <<"x", " ", "p", "{", "a", ",", "{", "c", ",", "d", "}",
                     "}", "s", ",", "d">>
  /\ line = <<"x", " ", "p", "a", "s", ",", "p", "{", "c", ",", "d", "}",
              "s", ",", "d">>

----------------------------------------------------------------------------
(* SpecPipe: the body of the inner loop of MyReadConsoleW, expand_braces    *)
(* and then associate, expand_symbol or expand_macro, repeated while one of *)
(* the three fired, run on a line and then on its own result.  The symbol   *)
(* a and the macro m are defined, each as the line c.  call.before is the   *)
(* line the run started from, call.old the number of rules that fired in    *)
(* it (a brace expansion, an association, a symbol or a macro), call.pos    *)
(* the number of the run.                                                   *)

\* the longest line every text of which is tried
PipeLen == 3

\* room for every expanded line
PipeCap == 16

PipeAlphabet == {"a", "m", "\"", "^", ",", "/", "{", "}"}

PipeLines ==
  TextsUpTo(PipeAlphabet, PipeLen)
    \cup {<<"{", "a", ",", "m", "}">>,
          <<"\"", "^", "^", ",", "\"">>,
          <<"\"", "^", "^", "^", "{", "\"">>,
          <<"x", "{", "a", ",", "^", ",", "}">>,
          <<"a", "/", " ", "m">>}

RECURSIVE pipe_loop(_, _)
\* a rule fired: the inner loop runs again
pipe_fired(r, freed) == pipe_loop([r EXCEPT !.call.old = @ + 1], freed)

pipe_macro(m, freed) == IF m.rv = 1 /\ ~m.ub THEN pipe_fired(m, freed) ELSE m

pipe_symbol(y, freed) ==
  IF y.rv = 1 THEN pipe_fired(y, freed)
              ELSE pipe_macro(expand_macro(y, freed), freed)

pipe_assoc(a, freed) ==
  IF a.rv = 1 THEN pipe_fired(a, freed)
              ELSE pipe_symbol(expand_symbol(a), freed)

\* expand_braces(), with the first brace expansion counted
pipe_braces(s, fired) == expand_braces([s EXCEPT !.call.old = @ + fired])

pipe_loop(s, freed) ==
  pipe_assoc(associate(pipe_braces(s, brace_expansion(s).rv)), freed)

\* what a run starts from
pipe_start(s) ==
  [s EXCEPT !.call = [NoCall EXCEPT !.op = "expand", !.before = s.line,
                                    !.pos = s.call.pos + 1],
            !.ub = FALSE, !.bell = FALSE, !.pc = "piped"]

InitPipe ==
  \E txt \in PipeLines :
    Is([Start EXCEPT !.pc = "pipe", !.max = PipeCap, !.line = txt,
                     !.sym_head = <<[name |-> <<"a">>, lines |-> <<<<"c">>>>]>>,
                     !.mac_head = <<[name |-> <<"m">>, lines |-> <<<<"c">>>>]>>])

PipeRun ==
  /\ pc \in {"pipe", "piped"}
  /\ call.pos < 2
  /\ Step(pipe_loop(pipe_start(Cur), NoIn.freed))

NextPipe == PipeRun

SpecPipe == InitPipe /\ [][NextPipe]_vars

----------------------------------------------------------------------------
(* SpecVars: expand_vars( FALSE ) called once on a line, with the symbols   *)
(* sym (defined as -expansion-) and s (defined as x).  call.before is the   *)
(* line handed to expand_vars.                                              *)

\* the longest line every text of which is tried
VarLen == 6

\* room for every expanded line
VarCap == 40

EXPANSION == <<"-", "e", "x", "p", "a", "n", "s", "i", "o", "n", "-">>

VarSyms ==
  <<[name |-> <<"s", "y", "m">>, lines |-> <<EXPANSION>>],
    [name |-> <<"s">>, lines |-> <<<<"x">>>>]>>

VAR_SYM_SYM == <<"%", "s", "y", "m", "%", "s", "y", "m", "%">>
VAR_A_SYM   == <<"%", "a", "%", "s", "y", "m", "%">>
VAR_ESC_SYM == <<"^", "%", "s", "y", "m", "%", "s", "y", "m", "%">>
VAR_SYM_ESC == <<"%", "s", "y", "m", "^", "%", "s", "y", "m", "%">>

VarLines ==
  TextsUpTo({"%", "^", "s", "a"}, VarLen)
    \cup {VAR_SYM_SYM, VAR_A_SYM, VAR_ESC_SYM, VAR_SYM_ESC}

InitVars ==
  \E txt \in VarLines :
    Is([Start EXCEPT !.pc = "var", !.max = VarCap, !.line = txt,
                     !.sym_head = VarSyms,
                     !.call = [NoCall EXCEPT !.before = txt]])

VarsExpand ==
  /\ pc = "var"
  /\ Step([expand_vars(Cur, FALSE) EXCEPT !.pc = "expanded",
                                          !.call.op = "expand_vars"])

NextVars == VarsExpand

SpecVars == InitVars /\ [][NextVars]_vars

\* the text of the symbol called word, <<>> when there is none
SymText(word) ==
  IF \E i \in 1..Len(VarSyms) : VarSyms[i].name = word
    THEN VarSyms[CHOOSE i \in 1..Len(VarSyms) : VarSyms[i].name = word].lines[1]
    ELSE <<>>

\* txt with every token replaced, read from position p on; start is the
\* position after the opening delimiter, -1 when none is open.  A token with
\* a defined name gives way to the symbol's text and the reading goes on
\* after that text; the closing delimiter of any other token opens the next
RECURSIVE Replaced(_, _, _)
Replaced(txt, p, start) ==
  IF p >= Len(txt) THEN txt
  ELSE IF Chr(txt, p) = ESCAPE THEN Replaced(txt, p + 2, start)
  ELSE IF Chr(txt, p) # VARIABLE_CH THEN Replaced(txt, p + 1, start)
  ELSE IF start = -1 THEN Replaced(txt, p + 1, p + 1)
  ELSE IF SymText(Sub(txt, start, p)) # <<>>
    THEN Replaced(Sub(txt, 0, start - 1) \o SymText(Sub(txt, start, p))
                    \o Sub(txt, p + 1, Len(txt)),
                  start - 1 + Len(SymText(Sub(txt, start, p))), -1)
  ELSE Replaced(txt, p + 1, p + 1)

\* C13 as stated: expand_vars replaces every token whose name is a defined
\* symbol, delimiters included, by the symbol's text, takes an escaped
\* delimiter for ordinary text and lets the closing delimiter of an unknown
\* name open the next token
C13_Stated == pc = "expanded" => line = Replaced(call.before, 0, -1)

\* the four lines the claim names, and what they become
C13_Examples ==
  pc = "expanded" =>
    /\ call.before = VAR_SYM_SYM => line = EXPANSION \o <<"s", "y", "m", "%">>
    /\ call.before = VAR_A_SYM => line = <<"%", "a">> \o EXPANSION
    /\ call.before = VAR_ESC_SYM =>
         line = <<"^", "%", "s", "y", "m">> \o EXPANSION
    /\ call.before = VAR_SYM_ESC => line = VAR_SYM_ESC

----------------------------------------------------------------------------
(* SpecKeys: the keys of the motion and termination functions, read by      *)
(* edit_line while a short line is typed.  call.fn is the function the      *)
(* last key was dispatched to, call.before the line before that key,         *)
(* call.old the cursor before it.                                           *)

\* the capacity of the requests
KeyCap == 7

HELLO == <<"h", "e", "l", "l", "o">>

MotionFns ==
  {"CharLeft", "CharRight", "WordLeft", "WordRight", "StringLeft",
   "StringRight", "BegLine", "EndLine"}

KeyFns ==
  MotionFns \cup {"Default", "Enter", "Wipe", "Erase", "StoreErase",
                  "DelEndExec"}

\* no line of this specification is long enough to be stored in the history
InitKeys ==
  Is([Start EXCEPT !.option = [DefaultOption EXCEPT !.min_length = KeyCap]])

KeysCall == Call(KeyCap, TRUE)

\* what the step of a key starts from
key_fresh(s, fn) ==
  [Fresh(s, 0, s.line) EXCEPT !.call.fn = fn, !.call.old = s.pos]

\* a key is read by edit_line and dispatched
KeysKey ==
  /\ pc = "edit"
  /\ \E fn \in KeyFns : \E ch \in {"a", " "} :
       Step(edit_done(edit_step(key_fresh(Cur, fn), ch, fn, NoIn), NoIn.freed))

\* the keys h, e, l, l, o are read one after the other
KeysHello ==
  /\ pc = "edit"
  /\ line = <<>>
  /\ Step(edit_done(type_chars(key_fresh(Cur, "Default"), HELLO, 1),
                    NoIn.freed))

NextKeys == KeysCall \/ KeysKey \/ KeysHello \/ Expand

SpecKeys == InitKeys /\ [][NextKeys]_vars

\* C14 as stated: the step that dispatches Enter, Wipe, Erase or StoreErase
\* ends the loop of edit_line: no further key is read for the line
C14_Stated ==
  [][(pc = "edit" /\ call'.fn \in {"Enter", "Wipe", "Erase", "StoreErase"})
       => (done' /\ pc' # "edit")]_vars

\* C14: the step that dispatches Enter, Wipe or DelEndExec ends the loop of
\* edit_line (Wipe with the line as it is, DelEndExec with the line cut at
\* the cursor); the step that dispatches Erase or StoreErase empties the
\* line, puts the cursor at 0 and leaves edit_line reading keys
C14_Ends ==
  [][/\ (pc = "edit" /\ call'.fn \in {"Enter", "Wipe", "DelEndExec"})
          => (done' /\ pc' # "edit")
     /\ (pc = "edit" /\ call'.fn \in {"Erase", "StoreErase"})
          => (~done' /\ pc' = "edit" /\ line' = <<>> /\ pos' = 0)]_vars

C14_Witness ==
  /\ pc = "expand"
  /\ call.fn = "Wipe"
  /\ done
  /\ line = HELLO

----------------------------------------------------------------------------
(* SpecBreak: lines typed at the prompt while a macro of two lines is       *)
(* defined, and Control+Break received at any wait of the program.          *)

\* the most Control+Break events that wait to be looked at
MaxBreak == 3

SEP_X_B == <<"x", CMDSEP, "b">>

BreakLines == {RUN_M, RUN_MB, SEP_X_B, PLAIN}

InitBreak ==
  Is([Start EXCEPT
        !.mac_head = <<[name |-> <<"m">>, lines |-> <<<<"x">>, <<"y">>>>]>>])

BreakCall == Call(DefCap, TRUE)

\* the user types a line and Enter while no Control+Break waits
BreakLine ==
  /\ check_break <= 1
  /\ \E txt \in BreakLines : KeyLine(txt)

\* the user types a line and no Enter
BreakType ==
  /\ pc = "edit"
  /\ check_break <= 1
  /\ line = <<>>
  /\ Step(edit_done(type_chars(Fresh(Cur, 0, PLAIN), PLAIN, 1), NoIn.freed))

\* ctrl_break: the handler counts the event
CtrlBreak ==
  /\ pc \in {"idle", "edit", "expand"}
  /\ check_break < MaxBreak
  /\ Set([Cur EXCEPT !.check_break = @ + 1])

\* get_key returns Erase for the event read while Control+Break waits
get_key_break(s) == edit_step([s EXCEPT !.check_break = 1], NUL, "Erase", NoIn)

BreakKey ==
  /\ pc = "edit"
  /\ check_break > 1
  /\ Step(edit_done(get_key_break(Fresh(Cur, 0, line)), NoIn.freed))

NextBreak ==
  BreakCall \/ BreakLine \/ BreakType \/ CtrlBreak \/ BreakKey \/ Expand

SpecBreak == InitBreak /\ [][NextBreak]_vars

\* C15 as stated: the step that takes notice of a Control+Break received
\* during a read request leaves no frame on the macro stack and no queued
\* text, delivers no queued text, and leaves the program at the key read of
\* edit_line with an empty line
C15_Stated ==
  [][(pc \in {"edit", "expand"} /\ check_break > 1 /\ check_break' = 1)
       => /\ macro_stk' = <<>>
          /\ mcmd'.null
          /\ call'.mc = <<>>
          /\ pc' = "edit"
          /\ line' = <<>>]_vars

----------------------------------------------------------------------------
(* SpecMacro: keyboard macros are recorded and played while edit_line reads *)
(* keys.  call.kbd tells that the step was read from the keyboard, call.pos *)
(* its key, call.fn and call.ch the step as the recording sees it.          *)

\* the buffer of the request, the longest recording and the furthest
\* position of a playback that the keys are read or played at
MacCap == 4
MaxRec == 3
MaxMacPos == 4

\* no line is long enough to be stored in the history
InitMacro ==
  Is([Start EXCEPT !.option = [DefaultOption EXCEPT !.min_length = MacCap]])

MacCall == Call(MacCap, TRUE)

\* what the memory past the steps of a macro may hold
Junk == {[ch |-> "NUL", fn |-> "Ignore"], [ch |-> "?", fn |-> "Default"]}

mac_seen(r, key, typed) ==
  [r EXCEPT !.call.op = "edit_line", !.call.kbd = typed, !.call.pos = key,
            !.call.fn = r.fn, !.call.ch = r.ch]

\* the number of steps of the macro of the key
MacroLen(key) == MacroOf(Cur, key).len

\* the recording has room for the step, or the key ends the recording
MacRoom(key) ==
  IF ~recording THEN TRUE
  ELSE IF key # 0 THEN keymap[key] = "Record" \/ MacroLen(rec_mac) < MaxRec
  ELSE MacroLen(rec_mac) < MaxRec

\* the key is read by edit_line and dispatched; case Record reads the key
\* tkey
MacStep(key, tkey) ==
  /\ MacRoom(key)
  /\ tkey # 0 => IF key = 0 THEN FALSE
                 ELSE keymap[key] = "Record" /\ ~recording
  /\ Step(edit_done(mac_seen(edit_key(Fresh(Cur, 0, <<>>), key, "a",
                                      [NoIn EXCEPT !.tkey = tkey]),
                             key, TRUE),
                    NoIn.freed))

\* the keys that are pressed, and the keys that are pressed for case Record:
\* a character key, a key without a function and the key of Enter
MacKeys == {0, 1, 3, 4, 5, 6, 7}
MacTargets == {0, 1, 4}

MacKey ==
  /\ pc = "edit"
  /\ mac = 0
  /\ \E key \in MacKeys : \E tkey \in MacTargets : MacStep(key, tkey)

\* the next step of the macro being played is dispatched
MacPlay ==
  /\ pc = "edit"
  /\ mac # 0
  /\ mac_pos < MaxMacPos
  /\ MacRoom(0)
  /\ \E junk \in Junk :
       /\ ~mac_ub(Cur) => junk = [ch |-> "NUL", fn |-> "Ignore"]
       /\ Step(edit_done(mac_seen(edit_play(Fresh(Cur, 0, <<>>), junk, NoIn),
                                  0, FALSE),
                         NoIn.freed))

NextMacro == MacCall \/ MacKey \/ MacPlay \/ Expand

SpecMacro == InitMacro /\ [][NextMacro]_vars


\* the macros of the key in a list of macros
KeyMacros(head, key) == SelectSeq(head, LAMBDA m : m.key = key)

\* the steps that have been recorded when the step that call' describes
\* stops the recording: the key of Record is not recorded, the step that
\* ends the line is
StoppedSteps ==
  IF call'.fn = "Record" THEN MacroOf(Cur, rec_mac).func
  ELSE Append(MacroOf(Cur, rec_mac).func, [ch |-> call'.ch, fn |-> call'.fn])

\* the macro of the key that holds the steps
StepsMacro(key, steps) ==
  [key |-> key, len |-> Len(steps), func |-> steps, line |-> <<>>]

\* C16: when a recording stops with no step recorded, the macro is deleted
\* and the slot of the target key becomes Ignore; with exactly one step that
\* is a literal character the macro holds that one character and the slot
\* becomes Play; with two or more steps the macro holds exactly the recorded
\* steps in their order and the slot becomes Play.
C16_Stated ==
  [][(recording /\ ~recording') =>
       /\ Len(StoppedSteps) = 0 =>
            /\ KeyMacros(macro_head', rec_mac) = <<>>
            /\ keymap'[rec_mac] = "Ignore"
       /\ (Len(StoppedSteps) = 1 /\ StoppedSteps[1].fn = "Default") =>
            /\ KeyMacros(macro_head', rec_mac)
                 = <<StepsMacro(rec_mac, StoppedSteps)>>
            /\ keymap'[rec_mac] = "Play"
       /\ Len(StoppedSteps) >= 2 =>
            /\ KeyMacros(macro_head', rec_mac)
                 = <<StepsMacro(rec_mac, StoppedSteps)>>
            /\ keymap'[rec_mac] = "Play"]_vars

\* a recording of two steps has been stopped by the key of Record
C16_Witness ==
  /\ pc = "edit"
  /\ call.op = "edit_line" /\ call.kbd /\ call.fn = "Record"
  /\ ~recording /\ rec_mac = 1
  /\ keymap[1] = "Play"
  /\ KeyMacros(macro_head, 1) # <<>>
  /\ KeyMacros(macro_head, 1)[1].len = 2

\* a recording without a step has been stopped
C16_Empty ==
  /\ pc = "edit"
  /\ call.op = "edit_line" /\ call.fn = "Record"
  /\ ~recording /\ rec_mac = 1
  /\ KeyMacros(macro_head, 1) = <<>>

\* a recording of one literal character has been stopped
C16_Single ==
  /\ pc = "edit"
  /\ call.op = "edit_line" /\ call.fn = "Record"
  /\ ~recording /\ rec_mac = 1
  /\ KeyMacros(macro_head, 1) = <<StepsMacro(1, <<[ch |-> "a", fn |-> "Default"]>>)>>


----------------------------------------------------------------------------
(* SpecPlay: macros are recorded on two keys and played, also while the     *)
(* other one is recorded.  The observations are those of SpecMacro.         *)

\* the keys that are pressed: a character key, the two keys without a
\* function and the key of Record
PlayKeys == {0, 1, 2, 3}
PlayTargets == {0, 1, 2}

PlayCall == Call(MacCap, TRUE)

PlayKey ==
  /\ pc = "edit"
  /\ mac = 0
  /\ \E key \in PlayKeys : \E tkey \in PlayTargets : MacStep(key, tkey)

NextPlay == PlayCall \/ PlayKey \/ MacPlay

SpecPlay == InitMacro /\ [][NextPlay]_vars

\* the macro being played
Playing == KeyMacros(macro_head, mac)[1]

\* C17: the playback of a macro of several steps starts from its first
\* step, and every cycle of the playback dispatches the step at the playback
\* position, as recorded, and moves to the next one; after the last step the
\* keyboard is read again, and not before.
C17_Stated ==
  [][/\ (mac = 0 /\ mac' # 0) => mac_pos' = 0
     /\ (mac # 0 /\ pc = "edit" /\ pc' # "crashed") =>
          /\ mac_pos < Playing.len
          /\ call'.fn = Playing.func[mac_pos + 1].fn
          /\ call'.ch = Playing.func[mac_pos + 1].ch
          /\ IF mac_pos + 1 = Playing.len
               THEN mac' = 0
               ELSE mac' = mac /\ mac_pos' = mac_pos + 1]_vars


LastRecorded ==
  KeyMacros(macro_head', rec_mac)[1].func[KeyMacros(macro_head', rec_mac)[1].len]

C18_Erased ==
  /\ pc = "edit" /\ recording /\ rec_mac = 1
  /\ call.fn = "Erase" /\ line = <<>>
  /\ KeyMacros(macro_head, 1)[1].len = 2


\* C19: the motion functions CharLeft, CharRight, WordLeft, WordRight,
\* StringLeft, StringRight, BegLine and EndLine leave the text of the line
\* and its length as they are; CharLeft moves the cursor one position to the
\* left and CharRight one to the right, except that CharLeft at position 0
\* and CharRight at the end of the line leave it where it is (in the line
\* hello, CharLeft from 5 gives 4, then 3, then 2).
C19_Stated ==
  [][(pc = "edit" /\ call'.fn \in MotionFns) =>
       /\ line' = line
       /\ call'.fn = "CharLeft" =>
            pos' = IF pos = 0 THEN 0 ELSE pos - 1
       /\ call'.fn = "CharRight" =>
            pos' = IF pos = Len(line) THEN pos ELSE pos + 1]_vars

\* CharLeft has moved the cursor from 3 to 2 in the line hello
C19_Witness ==
  /\ pc = "edit"
  /\ call.fn = "CharLeft" /\ call.old = 3
  /\ call.before = HELLO /\ line = HELLO
  /\ pos = 2

\* CharLeft has been dispatched at position 0 of the line hello
C19_AtStart ==
  /\ pc = "edit"
  /\ call.fn = "CharLeft" /\ call.old = 0
  /\ line = HELLO /\ pos = 0

\* CharRight has been dispatched at the end of the line hello
C19_AtEnd ==
  /\ pc = "edit"
  /\ call.fn = "CharRight" /\ call.old = 5
  /\ line = HELLO /\ pos = 5


----------------------------------------------------------------------------
(* SpecFiles: the loop of find_files over the names that match_file gives   *)
(* for a name typed without wildcards.  call.mc holds the names in the      *)
(* order match_file gives them, call.pos the number of characters past the  *)
(* end of a name that happen to be equal, call.old the value returned.      *)

\* the most names of a directory that match, and the most characters read
\* past the end of a name that are equal
MaxFiles == 3
MaxOver == 2

FOO_TXT == <<"f", "o", "o", ".", "t", "x", "t">>
FOOBAR_TXT == <<"f", "o", "o", "b", "a", "r", ".", "t", "x", "t">>

\* the names of the files, no two of them equal without regard to case
FileNames ==
  {FOO_TXT, FOOBAR_TXT, <<"f", "o", "o">>, <<"F", "o", "b">>,
   <<"F", "O", "O", "B">>}

Typed == {<<>>, <<"f">>, <<"f", "o">>, <<"F", "O", "O">>}

\* the lists of k different names
Listings(k) ==
  {l \in [1..k -> FileNames] : \A i, j \in 1..k : i # j => l[i] # l[j]}

\* the files of the directory that match the typed text, in any order
InitFiles ==
  \E k \in 1..MaxFiles : \E names \in Listings(k) : \E typed \in Typed :
    \E over \in 0..MaxOver :
      /\ \A i \in 1..k : Glob(typed \o <<"*">>, names[i])
      /\ Is([Start EXCEPT !.pc = "files", !.line = typed, !.pos = Len(typed),
                          !.max = Len(typed) + 2,
                          !.call = [NoCall EXCEPT !.mc = names,
                                                  !.pos = over]])

\* the while (match) loop from the i-th name on
RECURSIVE ff_names(_, _, _, _)
ff_names(s, names, i, c) ==
  IF i > Len(names) THEN s
  ELSE ff_names(ff_add(s, names[i], c), names, i + 1, c)

\* find_files from fname = new_history( ... ) to the end of the loop
ff_loop(s, names, over) ==
  ff_names([s EXCEPT !.fname = [self |-> Sub(s.line, s.fname_pos, s.pos),
                                names |-> <<>>, null |-> FALSE],
                     !.fname_cnt = 0, !.rv = -1],
           names, 1,
           [wild |-> FALSE, typed |-> s.pos - s.fname_pos, over |-> over])

files_found(r) ==
  [r EXCEPT !.pc = "found", !.call.op = "find_files", !.call.old = r.rv]

FilesFind ==
  /\ pc = "files"
  /\ Step(files_found(ff_loop(Cur, call.mc, call.pos)))

NextFiles == FilesFind

SpecFiles == InitFiles /\ [][NextFiles]_vars

\* the length of the shortest name
ShortestLen(names) ==
  Least({Len(names[i]) : i \in 1..Len(names)})

\* all names are equal in their first n characters, without regard to case
SharedUpTo(names, n) ==
  \A i \in 1..Len(names) : EqNoCase(names[i], names[1], n)

\* the length of the longest beginning that all names share
LongestCommon(names) ==
  CHOOSE n \in 0..ShortestLen(names) :
    /\ SharedUpTo(names, n)
    /\ \A k \in (n + 1)..ShortestLen(names) : ~SharedUpTo(names, k)

\* C20: for a name without wildcards find_files returns the length of the
\* longest beginning that all the matching names share without regard to
\* case, which is at most the length of the shortest name, in whatever order
\* the names are found (foo.txt and foobar.txt for fo give 3).
C20_Stated == pc = "found" => call.old = LongestCommon(call.mc)

\* as long as no name is read past its end the value is the one C20 states
C20_InRange == (pc = "found" /\ ~ub) => call.old = LongestCommon(call.mc)

\* foobar.txt and foo.txt, found in this order for the text fo, give 3
C20_Example ==
  /\ pc = "found"
  /\ call.mc = <<FOOBAR_TXT, FOO_TXT>>
  /\ line = <<"f", "o">>
  /\ call.old = 3


----------------------------------------------------------------------------
(* SpecCycle: names are completed with Cycle and CycleBack in directories   *)
(* of up to MaxDir entries, found in any order.  call.fn holds the function *)
(* of the last key, call.old the cursor and call.before the line before it. *)

\* the buffer of the request, the longest line a key is read for and the
\* most entries of a directory
CycCap == 14
CycLen == 7
MaxDir == 3

\* the entries a directory may hold: no name is the beginning of another one
DirEntries ==
  {[name |-> <<"a", "a", "a", "a">>, dir |-> TRUE],
   [name |-> <<"a", "b">>, dir |-> FALSE],
   [name |-> <<"A", "E">>, dir |-> FALSE],
   [name |-> <<"a", " ", "b">>, dir |-> FALSE]}

\* the directories: up to MaxDir different entries in any order
Dirs ==
  UNION {{l \in [1..k -> DirEntries] : \A i, j \in 1..k : i # j => l[i] # l[j]}
         : k \in 0..MaxDir}

\* the lines that are typed before the completion: a command and the
\* beginning of a name, with or without quotes
CycTyped ==
  {<<"x", " ", "a">>, <<"x", " ">>, <<"x", " ", "\"", "a", " ", "\"">>,
   <<"x", " ", "b">>, <<"x", " ", "\"", "b", "\"">>}

InitCycle ==
  \E d \in Dirs :
    Is([Start EXCEPT !.listing = d,
                     !.option = [DefaultOption EXCEPT !.min_length = CycCap]])

CycCall == Call(CycCap, TRUE)

\* the keys of one of the lines are read one after the other
CycType ==
  /\ pc = "edit"
  /\ line = <<>>
  /\ \E txt \in CycTyped :
       Step(edit_done(type_chars(key_fresh(Cur, "Default"), txt, 1),
                      NoIn.freed))

CycFns == {"Cycle", "CycleBack"}

\* a key is read by edit_line and dispatched, as long as the line is short
CycKey ==
  /\ pc = "edit"
  /\ line # <<>>
  /\ Len(line) <= CycLen
  /\ \E fn \in CycFns :
       Step(edit_done(edit_step(key_fresh(Cur, fn), "a", fn, NoIn),
                      NoIn.freed))

NextCycle == CycCall \/ CycType \/ CycKey

SpecCycle == InitCycle /\ [][NextCycle]_vars


\* the ring is in ascending order of CompareStringW and holds no name twice
RingSorted ==
  \A i, j \in 1..Len(fname.names) :
    i < j => /\ ~Greater(fname.names[i], fname.names[j])
             /\ fname.names[i] # fname.names[j]

\* the k-th name of the ring; the name 0 is the text that was typed
RingName(k) == IF k = 0 THEN fname.self ELSE fname.names[k]

\* after the step the line holds the k-th name of the ring where the name
\* that is completed begins, the cursor is behind it and behind the blank
\* (and the quote) that follow the name of a file
RingPut(k) ==
  /\ fnp' = k
  /\ Cells(line', fname_pos', fname_pos' + Len(RingName(k))) = RingName(k)
  /\ pos' = fname_pos' + Len(RingName(k))
              + (IF k = 0 \/ RingName(k)[Len(RingName(k))] = dirchar THEN 0
                 ELSE IF fnoq' THEN 2 ELSE 1)
  /\ pos' = Len(line')

\* a completion with several candidates is going on
Cycling == pc = "edit" /\ compl >= 2 /\ fname_cnt > 1

\* C21: the ring of candidates is in ascending case-insensitive order; while
\* a completion is going on, Cycle puts the next name of the ring into the
\* line and CycleBack the previous one, each name once in a round, and the
\* step after the last name (before the first one for CycleBack) puts the
\* text that was typed back and rings the bell.
C21_Stated ==
  /\ [](~fname.null => RingSorted)
  /\ [][(Cycling /\ call'.fn = "Cycle") =>
          /\ RingPut((fnp + 1) % (fname_cnt + 1))
          /\ bell' <=> fnp = fname_cnt]_vars
  /\ [][(Cycling /\ call'.fn = "CycleBack") =>
          /\ RingPut((fnp + fname_cnt) % (fname_cnt + 1))
          /\ bell' <=> fnp = 1]_vars

\* Cycle has put the third of three names into the line, found in an order
\* that is not the order of the ring
C21_Witness ==
  /\ pc = "edit" /\ call.fn = "Cycle"
  /\ fname_cnt = 3 /\ fnp = 3
  /\ listing[1].name = <<"a", "b">> /\ listing[2].name = <<"A", "E">>
  /\ fname.names = <<<<"a", "a", "a", "a", "\\">>, <<"a", "b">>, <<"A", "E">>>>
  /\ line = <<"x", " ", "A", "E", " ">>

\* Cycle has put the typed text back after the last name
C21_Round ==
  /\ pc = "edit" /\ call.fn = "Cycle" /\ bell
  /\ fname_cnt = 3 /\ fnp = 0 /\ compl = 3
  /\ line = <<"x", " ", "a">>


----------------------------------------------------------------------------
(* C23: a completion without a candidate.                                   *)

\* a step of Cycle or CycleBack whose search found no name
NoMatch == pc = "edit" /\ pc' = "edit" /\ call'.fn \in CycFns /\ fname_cnt' = 0

\* the line holds a quote
Quoted(txt) == \E i \in 1..Len(txt) : txt[i] = "\""

\* C23: a completion request that finds no candidate rings the bell, ends
\* only that action (the line is edited on, no completion goes on) and leaves
\* the text of the line, its length and the cursor as they were, also when the
\* text holds quotes
C23_Stated ==
  [][NoMatch => /\ bell' /\ compl' = 0
                /\ line' = line /\ pos' = pos]_vars

\* C23 for a text without quotes
C23_Plain ==
  [][(NoMatch /\ ~Quoted(line)) => /\ bell' /\ compl' = 0
                                   /\ line' = line /\ pos' = pos]_vars

\* C23 as far as the bell and the end of the action go
C23_Bell == [][NoMatch => bell' /\ compl' = 0]_vars

\* the quoted name b was completed in vain: the closing quote is gone
C23_Unquoted ==
  /\ pc = "edit" /\ call.fn = "Cycle" /\ fname_cnt = 0 /\ bell
  /\ call.before = <<"x", " ", "\"", "b", "\"">> /\ call.old = 5
  /\ line = <<"x", " ", "\"", "b">> /\ pos = 4


----------------------------------------------------------------------------
(* SpecDefk: keys are defined with defk and delk, read from a command file  *)
(* of one line, and keyboard macros are recorded and played.  call.msg is   *)
(* the diagnostic of the command that the step ran, call.cmd its line.      *)

DK_WORD   == <<"d", "e", "f", "k", " ", "F", "1", " ", "E", "r", "a", "s", "e">>
DK_BADFN  == <<"d", "e", "f", "k", " ", "F", "1", " ", "Z", "z">>
DK_BADKEY == <<"d", "e", "f", "k", " ", "Z", "z", " ", "E", "r", "a", "s", "e">>
DK_MACRO  ==
  <<"d", "e", "f", "k", " ", "F", "1", " ", "\"", "a", "\"", " ", "E", "r", "a", "s", "e">>
DK_BADMAC == <<"d", "e", "f", "k", " ", "F", "1", " ", "E", "r", "a", "s", "e", " ", "Z", "z">>
DK_LEFT   == <<"d", "e", "f", "k", " ", "L", "e", "f", "t", " ", "\"", "a", "\"", " ", "Z", "z">>
DK_CMD    == <<"d", "e", "f", "k", " ", "F", "1", " ", "=", "x">>
DK_PLAY   == <<"d", "e", "f", "k", " ", "F", "2", " ", "P", "l", "a", "y">>
DK_WIPE   == <<"d", "e", "f", "k", " ", "F", "1">>
DELK_F    == <<"d", "e", "l", "k", " ", "F", "1", " ", "Z", "z", " ", "F", "2">>

DefkLines ==
  {DK_WORD, DK_BADFN, DK_BADKEY, DK_MACRO, DK_BADMAC, DK_LEFT, DK_CMD, DK_PLAY,
   DK_WIPE, DELK_F}

\* the buffer of the request
DefkCap == 4

\* no line is long enough to be stored in the history
InitDefk ==
  Is([Start EXCEPT !.option = [DefaultOption EXCEPT !.min_length = DefkCap]])

DefkCall == Call(DefkCap, TRUE)

\* CMDkey.exe names a command file that holds a line of DefkLines
DefkFile == \E txt \in DefkLines : CmdFile(<<txt>>)

\* the keys that are pressed and the keys that are pressed for case Record
DefkKeys == {1, 2, 3, 4, 7}
DefkTargets == {0, 1}

DefkKey ==
  /\ pc = "edit"
  /\ mac = 0
  /\ \E key \in DefkKeys : \E tkey \in DefkTargets : MacStep(key, tkey)

NextDefk == DefkCall \/ DefkFile \/ DefkKey \/ MacPlay \/ Expand

SpecDefk == InitDefk /\ [][NextDefk]_vars

\* a step whose command printed the diagnostic of an unknown key or function
Refused == call'.msg \in {"unrecognised key", "unrecognised function"}

\* C22: a defk command that names an unknown key or an unknown function
\* prints a diagnostic and leaves every slot of the keymap and the list of
\* keyboard macros as they were, also when the unknown function follows
\* valid elements of a definition of several elements
C22_Stated ==
  [][Refused => keymap' = keymap /\ macro_head' = macro_head]_vars

\* C22 for an unknown key and for a definition of a single unknown word
C22_Single ==
  [][(Refused /\ call'.cmd \in {DK_BADKEY, DK_BADFN})
       => keymap' = keymap /\ macro_head' = macro_head]_vars

\* every command with an unknown key or function prints a diagnostic
C22_Said ==
  [][(call'.cmd \in {DK_BADKEY, DK_BADFN, DK_BADMAC, DK_LEFT}) => Refused]_vars

\* the unknown function after the string a took the function of the key Left
C22_Lost ==
  /\ call.cmd = DK_LEFT
  /\ call.msg = "unrecognised function"
  /\ keymap[7] = "Ignore"
  /\ macro_head = <<>>


----------------------------------------------------------------------------
(* SpecMem: the lines of SpecDef are typed while allocations may fail.      *)
(* call.nomem holds the kinds of allocation that failed in the step.        *)

MEM_Y == <<"y">>

MemLines == {DEFS_A_B, DEFS_A_X, DEFM_A_X, DEFM_A, ENDM, PLAIN, MEM_Y}

MemCap == 12

InitMem ==
  Is([Start EXCEPT !.option = [DefaultOption EXCEPT !.histsize = MaxHist]])

MemCall == Call(MemCap, TRUE)

\* the state that a step starts from when the allocations of kinds fail
Short(kinds, typed) == [Fresh(Cur, 0, typed) EXCEPT !.fail = kinds]

\* the user types the line txt and Enter
MemKey ==
  /\ pc = "edit"
  /\ \E txt \in MemLines :
       /\ where # <<>> /\ where[1].fn = "execute_defm" =>
            /\ txt \in {PLAIN, ENDM}
            /\ Len(Defining.lines) >= MaxBody => txt = ENDM
       /\ \E kinds \in SUBSET Allocs :
            Step(edit_done(type_line(Short(kinds, txt), txt), NoIn.freed))

\* one iteration of the inner loop of MyReadConsoleW
MemExpand ==
  /\ pc = "expand"
  /\ \E kinds \in SUBSET Allocs : Step(read_expand(Short(kinds, <<>>), NoIn.freed))

NextMem == MemCall \/ MemKey \/ MemExpand

SpecMem == InitMem /\ [][NextMem]_vars

\* C24: when the allocation of a history entry fails, the history is after
\* the step exactly as it was before it; when the allocation of a definition
\* record or of its line fails in the step that runs the definition command,
\* the lists of definitions are exactly as they were before it
C24_Stated ==
  [][/\ "history" \in call'.nomem => history' = history /\ histsize' = histsize
     /\ (call'.nomem \cap {"define", "line"} # {} /\ call'.cmd # <<>>)
          => sym_head' = sym_head /\ mac_head' = mac_head]_vars

\* C24 for the definition commands alone
C24_Defs ==
  [][(call'.nomem \cap {"define", "line"} # {} /\ call'.cmd # <<>>)
       => sym_head' = sym_head /\ mac_head' = mac_head]_vars

\* C24 for a history that is not full: the line is not stored and no entry
\* is lost
C24_Room ==
  [][("history" \in call'.nomem /\ (option.histsize = 0 \/ histsize < option.histsize))
       => history' = history /\ histsize' = histsize]_vars

\* C24 for a new symbol whose name is not the name of a macro: the lists of
\* definitions are as they were
C24_NewName ==
  [][(/\ call'.nomem \cap {"define", "line"} # {}
      /\ call'.cmd \in {DEFS_A_B, DEFS_A_X}
      /\ \A i \in 1..Len(mac_head) : ~EqNoCase(mac_head[i].name, <<"a">>, 1)
      /\ \A i \in 1..Len(sym_head) : ~EqNoCase(sym_head[i].name, <<"a">>, 1))
       => sym_head' = sym_head /\ mac_head' = mac_head]_vars

\* the history was full when the entry for the line y could not be
\* allocated: its oldest line is gone and y is not stored
C24_Dropped ==
  /\ "history" \in call.nomem
  /\ call.before = MEM_Y
  /\ option.histsize = MaxHist
  /\ histsize = MaxHist - 1
  /\ Len(history) = MaxHist - 1
  /\ \A i \in 1..Len(history) : history[i] # MEM_Y

\* the line of the symbol a could not be allocated when a was redefined:
\* the symbol is gone
C24_Undefined ==
  /\ call.nomem = {"line"}
  /\ call.cmd = DEFS_A_X
  /\ sym_head = <<>>
  /\ history = <<DEFS_A_B, DEFS_A_X>>


----------------------------------------------------------------------------
(* SpecDelh: lines are typed and submitted with Enter or Wipe, and delh is  *)
(* also read from a command file, for a min_length of 0 and one that is     *)
(* longer than the delh line.  call.cmd is the command that the step ran.   *)

Y7 == <<"y", "y", "y", "y", "y", "y", "y">>
XY7 == <<"x", "y", "y", "y", "y", "y", "y">>

DelhLines == {PLAIN, MEM_Y, Y7, XY7, DELH_X}

\* a min_length that keeps the delh line out of the history
DelhMin == 7

DelhCap == 10

InitDelh ==
  \E ml \in {0, DelhMin} :
    Is([Start EXCEPT !.option = [DefaultOption EXCEPT !.histsize = MaxHist,
                                                      !.min_length = ml]])

\* the history has not been damaged by the removal of its sentinel
Intact == histsize >= 0

DelhCall == Intact /\ Call(DelhCap, TRUE)

\* the line txt is typed and submitted with Enter or with Wipe
DelhKey ==
  /\ pc = "edit"
  /\ Intact
  /\ \E txt \in DelhLines : \E fn \in {"Enter", "Wipe"} :
       Step(edit_done(edit_step(type_chars(Fresh(Cur, 0, txt), txt, 1),
                                "\r", fn, NoIn),
                      NoIn.freed))

\* CMDkey.exe names a command file that holds the delh line
DelhFile == Intact /\ CmdFile(<<DELH_X>>)

NextDelh == DelhCall \/ DelhKey \/ Expand \/ DelhFile

SpecDelh == InitDelh /\ [][NextDelh]_vars

\* the lines of a history that do not hold the text x
WithoutX(h) == SelectSeq(h, LAMBDA l : ~Contains(l, <<"x">>))

\* C25: the step that runs delh x removes from the history the entry of the
\* delh line (which holds x) and every entry that holds x, and no other
\* entry, however the line came to the interpreter and whatever min_length is
C25_Stated ==
  [][call'.cmd = DELH_X => /\ history' = WithoutX(history)
                           /\ histsize' = Len(history')]_vars

\* C25 for a delh line that is the most recent entry of the history
C25_Stored ==
  [][(/\ call'.cmd = DELH_X
      /\ history # <<>>
      /\ history[Len(history)] = DELH_X)
       => /\ history' = WithoutX(history)
          /\ histsize' = Len(history')]_vars

\* delh never leaves an entry that holds the text
C25_Gone ==
  [][call'.cmd = DELH_X => \A i \in 1..Len(history') : ~Contains(history'[i], <<"x">>)]_vars


\* delh removes no entry that does not hold the text
C25_Kept ==
  [][call'.cmd = DELH_X =>
       \A i \in 1..Len(history) :
         ~Contains(history[i], <<"x">>) => history[i] \in Range(history')]_vars


----------------------------------------------------------------------------
(* SpecEndm: macros of several lines are typed at the prompt and read from  *)
(* a command file.  call.before is the line that the step typed.            *)

EMPTY   == <<>>
BLANK   == <<" ">>
ENDM_UP == <<" ", "E", "n", "d", "M">>
ENDM_X  == <<"e", "n", "d", "m", " ", "x">>

\* the lines typed for the body of a macro
BodyLines == {PLAIN, MEM_Y, EMPTY, BLANK, ENDM, ENDM_UP, ENDM_X}

\* a file that defines the macro a with a blank line in its body and ends
\* without endm, and a file that ends the body with endm
EndmFiles ==
  {<<DEFM_A, PLAIN, EMPTY, MEM_Y>>, <<DEFM_A, MEM_Y, ENDM, PLAIN>>}

EndmCap == 8

\* no line is long enough to be stored in the history
InitEndm ==
  Is([Start EXCEPT !.option = [DefaultOption EXCEPT !.min_length = EndmCap]])

EndmCall == Call(EndmCap, TRUE)

\* execute_defm waits for a line of the body
Capturing == pc = "edit" /\ where # <<>> /\ where[1].fn = "execute_defm"

\* a line of the body is typed, or defm a or a plain line at the prompt
EndmKey ==
  \E txt \in BodyLines \cup {DEFM_A} :
    /\ IF Capturing
         THEN /\ txt \in BodyLines
              /\ Len(Defining.lines) >= MaxBody => txt = ENDM
         ELSE txt \in {DEFM_A, PLAIN}
    /\ KeyLine(txt)

EndmFile == \E f \in EndmFiles : CmdFile(f)

NextEndm == EndmCall \/ EndmKey \/ Expand \/ EndmFile

SpecEndm == InitEndm /\ [][NextEndm]_vars

\* the lines of the definition named nm in a list, <<>> when it has none
LinesOf(head, nm) ==
  IF Matches(head, nm) = {} THEN <<>> ELSE head[Least(Matches(head, nm))].lines

\* the line is empty or holds blanks only
IsBlankLine(txt) == \A i \in 1..Len(txt) : isblank(txt[i])

\* the first word of the line is endm, in any case
EndsBody(txt) ==
  \E k \in 0..Len(txt) :
    /\ \A i \in 1..k : isblank(txt[i])
    /\ Len(txt) >= k + Len(ENDM)
    /\ \A i \in 1..Len(ENDM) : Lower(txt[k + i]) = ENDM[i]
    /\ Len(txt) > k + Len(ENDM) => isblank(txt[k + Len(ENDM) + 1])

\* the capture goes on with the typed line as the next line of the macro
Captured ==
  /\ def_macro'
  /\ LinesOf(mac_head', where[1].mac)
       = Append(LinesOf(mac_head, where[1].mac), call'.before)

\* the capture is over and the macro holds the lines read before
Closed ==
  /\ ~def_macro'
  /\ LinesOf(mac_head', where[1].mac) = LinesOf(mac_head, where[1].mac)

C26_File ==
  /\ pc = "edit" /\ ~def_macro
  /\ call.op = "edit_line"
  /\ LinesOf(mac_head, <<"a">>) = <<PLAIN, MEM_Y>>
  /\ call.before = <<>>


\* the macros of the list that are assigned to the key
KeyedBy(key) == {i \in 1..Len(macro_head) : macro_head[i].key = key}

\* C28: after any sequence of defk, delk, recording and playback operations
\* a slot of the keymap holds Play if and only if the list of keyboard
\* macros has exactly one macro of that key (a recording that has not ended
\* is left aside)
C28_Stated ==
  ~recording =>
    \A key \in DOMAIN keymap :
      keymap[key] = "Play" <=> Cardinality(KeyedBy(key)) = 1

\* C28 for the list alone: no key has two macros
C28_Single == \A key \in DOMAIN keymap : Cardinality(KeyedBy(key)) <= 1

\* C28 from the list to the slot: the key of a macro holds Play, or Record
\* while the macro is being recorded
C28_Keyed ==
  \A key \in DOMAIN keymap :
    KeyedBy(key) # {} =>
      keymap[key] = IF recording /\ rec_mac = key THEN "Record" ELSE "Play"

\* defk F2 Play has run: the slot holds Play and the list has no macro of it
C28_Dangling ==
  /\ call.cmd = DK_PLAY /\ ~recording
  /\ keymap[2] = "Play" /\ KeyedBy(2) = {}



----------------------------------------------------------------------------
(* SpecFind: names are looked up in the lists of symbols, of macros and of  *)
(* associations.  call.fn is the list that was searched, call.str the name, *)
(* call.pos the result and call.mc the names of the list before the lookup. *)

\* the longest list
MaxList == 3

\* the names of the symbols and macros, and the names that are looked up
FindNames == {<<"a">>, <<"b">>, <<"C">>}
FindWords == {<<"a">>, <<"B">>, <<"c">>, <<"d">>}

\* the lists of extensions of the associations, and the extensions looked up
FindLists == {<<".", "a">>, <<".", "b", ".", "c">>, <<".", "c">>}
FindExts == {<<".", "a">>, <<".", "C">>, <<".", "d">>}

\* the lists of at most n definitions with different names
ListsOf(names, n) ==
  {[i \in DOMAIN l |-> [name |-> l[i], lines |-> <<l[i]>>]] :
     l \in {m \in TextsUpTo(names, n) :
              \A i, j \in DOMAIN m : i # j => m[i] # m[j]}}

NamesOf(list) == [i \in DOMAIN list |-> list[i].name]

\* the names of the macros
FindMacros == {<<"a">>, <<"b">>}

\* every list of symbols, the lists of macros and the lists of two or more
\* associations
InitFind ==
  \E syms \in ListsOf(FindNames, MaxList) :
    \E macs \in ListsOf(FindMacros, MaxList) :
      \E assocs \in {l \in ListsOf(FindLists, MaxList) : Len(l) > 1} :
        Is([Start EXCEPT !.sym_head = syms, !.mac_head = macs,
                         !.assoc_head = assocs])

\* the lookup is over: what it searched and what it returned
looked(r, s, head, txt) ==
  [r EXCEPT !.call.op = "find", !.call.fn = head, !.call.str = txt,
            !.call.pos = r.rv, !.call.mc = NamesOf(s[head]), !.pc = s.pc]

\* find_define( head, 0, line.len ) with the name as the line
FindDefine ==
  \E head \in {"sym_head", "mac_head"} : \E txt \in FindWords :
    Set(looked(find_define(Fresh([Cur EXCEPT !.line = txt], 0, txt),
                           head, 0, Len(txt)),
               Cur, head, txt))

\* find_assoc( ext, cnt )
FindAssoc ==
  \E ext \in FindExts :
    Set(looked(find_assoc(Fresh(Cur, 0, ext), ext), Cur, "assoc_head", ext))

NextFind == FindDefine \/ FindAssoc

SpecFind == InitFind /\ [][NextFind]_vars

\* the entry answers to the name: a definition of that name without regard
\* to case, an association that lists the extension
Answers(head, entry, txt) ==
  IF head = "assoc_head"
    THEN match_ext(txt, entry.name)
    ELSE /\ Len(entry.name) = Len(txt)
         /\ \A i \in 1..Len(txt) : Lower(entry.name[i]) = Lower(txt[i])

\* what a lookup of txt may make of the list old
Promoted(head, old, new, txt) ==
  IF \E i \in 1..Len(old) : Answers(head, old[i], txt)
    THEN /\ Len(new) = Len(old)
         /\ \E i \in 1..Len(old) :
              /\ old[i] = new[1]
              /\ Answers(head, old[i], txt)
              /\ \A j \in 1..(i - 1) : ~Answers(head, old[j], txt)
         /\ Tail(new) = SelectSeq(old, LAMBDA e : e # new[1])
    ELSE new = old

\* the lookup of txt in the list called head, the other lists left alone
Searched(head, old, new) ==
  IF call'.fn = head THEN Promoted(head, old, new, call'.str) ELSE new = old

\* C29: a successful lookup of a name in the list of symbols, of macros or
\* of associations moves the entry found to the front of the list and keeps
\* the order of the other entries; an unsuccessful lookup leaves the list as
\* it was
C29_Stated ==
  [][call'.op = "find" =>
       /\ Searched("sym_head", sym_head, sym_head')
       /\ Searched("mac_head", mac_head, mac_head')
       /\ Searched("assoc_head", assoc_head, assoc_head')]_vars

\* the symbol C was the last of three and is now the first, before a and b
C29_Witness ==
  /\ call.op = "find" /\ call.fn = "sym_head" /\ call.str = <<"c">>
  /\ call.pos = 1
  /\ call.mc = <<<<"a">>, <<"b">>, <<"C">>>>
  /\ NamesOf(sym_head) = <<<<"C">>, <<"a">>, <<"b">>>>

\* the association of .b.c was the last of three and answered for .C
C29_Assoc ==
  /\ call.op = "find" /\ call.fn = "assoc_head" /\ call.pos = 1
  /\ call.str = <<".", "C">>
  /\ call.mc = <<<<".", "a">>, <<".", "b", ".", "c">>, <<".", "c">>>>
  /\ NamesOf(assoc_head) = <<<<".", "b", ".", "c">>, <<".", "a">>, <<".", "c">>>>

\* the name d is in no list
C29_Missing ==
  /\ call.op = "find" /\ call.pos = 0 /\ call.str = <<"d">>
  /\ call.mc # <<>>



----------------------------------------------------------------------------
(* SpecDirty: the buffer operations between two redraws of edit_line.       *)
(* call.before is the line as the last redraw left it on the screen,        *)
(* call.op the last operation.                                              *)

InitDirty ==
  \E m \in 1..MaxCap : \E l \in TextsUpTo(BufAlphabet, m) :
    Is([Start EXCEPT !.pc = "buf", !.max = m, !.line = l,
                     !.call = [NoCall EXCEPT !.op = "redraw", !.before = l]])

\* the operation is over; the screen still shows the line of the last redraw
Since(r, op) ==
  [r EXCEPT !.call = [NoCall EXCEPT !.op = op, !.before = call.before]]

DirtyCopy ==
  /\ pc = "buf"
  /\ \E str \in BufTexts \cup {LongText} :
       Set(Since(copy_chars(Quiet(Cur), str), "copy"))

DirtyRemove ==
  /\ pc = "buf"
  /\ \E p \in 0..Len(line) : \E cnt \in 0..(Len(line) - p) :
       Set(Since(remove_chars(Quiet(Cur), p, cnt), "remove"))

DirtyInsert ==
  /\ pc = "buf"
  /\ \E p \in 0..Len(line) : \E str \in BufTexts :
       Set(Since(insert_chars(Quiet(Cur), p, str), "insert"))

DirtyReplace ==
  /\ pc = "buf"
  /\ \E p \in 0..Len(line) : \E old \in 0..(Len(line) - p) :
       \E str \in BufTexts :
         Set(Since(replace_chars(Quiet(Cur), p, old, str), "replace"))

\* edit_line starts the next key: dispbeg = dispend = 0, the span of the
\* last key having been written to the screen
DirtyRedraw ==
  /\ pc = "buf"
  /\ Set([Quiet(Cur) EXCEPT !.dispbeg = 0, !.dispend = 0,
                            !.call = [NoCall EXCEPT !.op = "redraw",
                                                    !.before = line]])

NextDirty ==
  DirtyCopy \/ DirtyRemove \/ DirtyInsert \/ DirtyReplace \/ DirtyRedraw

SpecDirty == InitDirty /\ [][NextDirty]_vars

\* the positions (from 0) whose character is not the one on the screen, and
\* the positions of the screen that the line has left
Stale ==
  {i \in 0..(Max(Len(line), Len(call.before)) - 1) :
     \/ i >= Len(line)
     \/ i >= Len(call.before)
     \/ line[i + 1] # call.before[i + 1]}

\* C30: after any sequence of remove_chars, insert_chars, replace_chars and
\* copy_chars calls since the last redraw, the span from dispbeg up to but
\* not including dispend contains every position whose character changed
\* and every position that stopped being part of the line
C30_Stated == \A i \in Stale : dispbeg <= i /\ i < dispend

\* two characters were on the screen; the line is now one other character
\* and the span covers both positions
C30_Witness ==
  /\ call.op = "remove"
  /\ call.before = <<"a", "a">> /\ line = <<"b">>
  /\ dispbeg = 0 /\ dispend = 2

\* the span is wider than what has changed: the last character was replaced
\* by itself after a redraw
C30_Wide ==
  /\ call.op = "replace" /\ Stale = {}
  /\ dispend > 0



----------------------------------------------------------------------------
(* SpecKeypad: process_keypad reads a hexadecimal Alt+keypad sequence while *)
(* its helper thread runs msgloop and the user presses keys.  Each action   *)
(* is one call of one thread; the threads are scheduled fairly.             *)

\* the keys the user presses before Alt is released
MaxKeys == 2

\* vkdigit, by the name of the virtual key
vkdigit ==
  [NUMPAD0 |-> 0, NUMPAD1 |-> 1, NUMPAD2 |-> 2, NUMPAD3 |-> 3, NUMPAD4 |-> 4,
   NUMPAD5 |-> 5, NUMPAD6 |-> 6, NUMPAD7 |-> 7, NUMPAD8 |-> 8, NUMPAD9 |-> 9,
   MULTIPLY |-> 11, ADD |-> 13, SEPARATOR |-> 14, SUBTRACT |-> 12,
   DECIMAL |-> 15, DIVIDE |-> 10]

\* the keypad keys of the model
KpKeys == {"NUMPAD1", "DECIMAL"}

KeyDown(vk) == [type |-> "KEY", down |-> TRUE, vk |-> vk]
KeyUp(vk) == [type |-> "KEY", down |-> FALSE, vk |-> vk]

\* the program state with the keypad state k
Kp(k) == Set([Cur EXCEPT !.kp = k])

\* process_keypad( VK_NUMPAD0 ) is called: num is 0 and the base 16
KpCall ==
  /\ kp.main = "idle"
  /\ Kp([NoKeypad EXCEPT !.main = "create", !.held = TRUE,
                         !.left = MaxKeys])

\* CreateThread: msgloop can run
KpCreateThread ==
  /\ kp.main = "create"
  /\ Kp([kp EXCEPT !.main = "event", !.helper = "start"])

\* CreateEvent: an auto-reset event that is not signalled
KpCreateEvent ==
  /\ kp.main = "event"
  /\ Kp([kp EXCEPT !.main = "loop", !.event = "clear"])

\* the body of the loop for the record rec
keypad_rec(k, rec) ==
  IF rec.type # "KEY" THEN k
  ELSE IF ~rec.down
    THEN IF rec.vk = "MENU" THEN [k EXCEPT !.main = "post"] ELSE k
  ELSE IF rec.vk \in DOMAIN vkdigit
    THEN [k EXCEPT !.num = 16 * @ + vkdigit[rec.vk]]
  ELSE k

\* WaitForMultipleObjects returns for the object of the smallest index that
\* is signalled: the console input, whose first record is read, or the event
KpLoop ==
  /\ kp.main = "loop"
  /\ IF kp.input # <<>>
       THEN Kp(keypad_rec([kp EXCEPT !.input = Tail(@)], Head(kp.input)))
       ELSE /\ kp.event = "set"
            /\ Kp(keypad_rec([kp EXCEPT !.event = "clear"],
                             KeyDown("SEPARATOR")))

\* PostThreadMessage fails when the thread has no message queue; the result
\* is not looked at
KpPost ==
  /\ kp.main = "post"
  /\ Kp(IF kp.queue
          THEN [kp EXCEPT !.main = "wait", !.posted = @ + 1,
                          !.sent = "queued"]
          ELSE [kp EXCEPT !.main = "wait", !.sent = "lost"])

\* WaitForSingleObject( thread, INFINITE ) returns when msgloop has returned
KpWait ==
  /\ kp.main = "wait"
  /\ kp.helper = "ended"
  /\ Kp([kp EXCEPT !.main = "close"])

\* the handles are closed and the number is made a character
KpReturn ==
  /\ kp.main = "close"
  /\ Kp([kp EXCEPT !.main = "idle", !.event = "none",
                   !.wch = IF kp.num < 256
                             THEN [cp |-> "oem", code |-> kp.num]
                             ELSE [cp |-> "unicode", code |-> kp.num % 65536]])

\* msgloop: SetWindowsHookEx, the first call of the thread into the window
\* manager, which gives the thread its message queue
KpHook ==
  /\ kp.helper = "start"
  /\ Kp([kp EXCEPT !.helper = "get", !.queue = TRUE, !.hooked = TRUE])

\* msgloop: GetMessage returns with a message of the queue
KpGetMessage ==
  /\ kp.helper = "get"
  /\ kp.posted > 0
  /\ Kp([kp EXCEPT !.helper = "unhook", !.posted = @ - 1])

\* msgloop: UnhookWindowsHookEx and return
KpUnhook ==
  /\ kp.helper = "unhook"
  /\ Kp([kp EXCEPT !.helper = "ended", !.hooked = FALSE, !.queue = FALSE])

\* the user presses a key of the keypad
KpPress ==
  /\ kp.held /\ kp.left > 0
  /\ \E vk \in KpKeys :
       Kp([kp EXCEPT !.left = @ - 1, !.input = Append(@, KeyDown(vk))])

\* the user presses Alt+Enter: KeyEvent signals the event and discards the
\* key when the hook is installed and msgloop is in GetMessage; otherwise
\* Windows handles the key
KpAltEnter ==
  /\ kp.held /\ kp.left > 0
  /\ Kp([kp EXCEPT !.left = @ - 1,
                   !.event = IF kp.hooked /\ kp.helper = "get" /\ @ # "none"
                               THEN "set" ELSE @])

\* the user releases Alt
KpRelease ==
  /\ kp.held
  /\ Kp([kp EXCEPT !.held = FALSE, !.input = Append(@, KeyUp("MENU"))])

\* the steps of process_keypad, of msgloop and of the user
KpMain == KpCreateThread \/ KpCreateEvent \/ KpLoop \/ KpPost \/ KpWait
            \/ KpReturn
KpHelper == KpHook \/ KpGetMessage \/ KpUnhook
KpUser == KpPress \/ KpAltEnter \/ KpRelease

NextKeypad == KpCall \/ KpMain \/ KpHelper \/ KpUser

SpecKeypad ==
  /\ Is(Start) /\ [][NextKeypad]_vars
  /\ WF_vars(KpMain) /\ WF_vars(KpHelper)

\* process_keypad is past WaitForSingleObject
Returning == kp.main = "close"

\* C27: in the hexadecimal Alt+keypad path the helper thread has terminated
\* before process_keypad returns, under every interleaving of the start of
\* the helper thread with the key reads and the stop message of the main
\* thread: the main thread never waits forever for the helper
C27_Stated ==
  /\ [](Returning => kp.helper = "ended")
  /\ (kp.main = "wait") ~> Returning

\* C27 as far as the order goes: no return while the helper runs
C27_Torn == Returning => kp.helper = "ended" /\ ~kp.hooked

\* C27 when the stop message reached the queue of the helper
C27_Queued == (kp.main = "wait" /\ kp.sent = "queued") ~> Returning

\* the stop message was posted before the helper had a queue: msgloop sits
\* in GetMessage, process_keypad in WaitForSingleObject
C27_Lost ==
  /\ kp.main = "wait" /\ kp.sent = "lost"
  /\ kp.helper = "get" /\ kp.posted = 0


\* the delimiter in front of the prepend, a space when there is none
PreDelim == LastTerm(call.str[1], Len(call.str[1]))

\* the delimiter that terminates the postpend, a space when there is none
PostDelim ==
  IF call.str[4] # <<>> /\ call.str[4][1] \in BRACE_TERM
    THEN call.str[4][1] ELSE " "

\* the positions (from 1) of the line after the items but the last: the
\* k-th is after k copies of prepend and postpend and the first k items
RECURSIVE ItemsLen(_, _)
ItemsLen(items, k) == IF k = 0 THEN 0 ELSE Len(items[k]) + ItemsLen(items, k - 1)

SepAfter(k) ==
  Len(call.str[1]) + k * (Len(call.str[2]) + Len(call.str[3]))
    + ItemsLen(call.mc, k) + k

\* C31: when the delimiter before the prepend is a space, or there is none,
\* the items that brace expansion makes are separated by the delimiter that
\* terminates the postpend, and otherwise by the delimiter of the prepend:
\* a b{1,2}c,d becomes a b1c,b2c,d and a;b{1,2}c,d becomes a;b1c;b2c,d
C31_Stated ==
  (pc = "braced" /\ Len(call.mc) >= 2) =>
    /\ call.old = 1
    /\ Len(line) = Len(call.before) - 2
                     + (Len(call.mc) - 1) * (Len(call.str[2]) + Len(call.str[3]))
    /\ \A k \in 1..(Len(call.mc) - 1) :
         line[SepAfter(k)] = IF PreDelim = " " THEN PostDelim ELSE PreDelim
    /\ call.before = <<"a", " ", "b", "{", "1", ",", "2", "}", "c", ",", "d">>
         => line = <<"a", " ", "b", "1", "c", ",", "b", "2", "c", ",", "d">>
    /\ call.before = <<"a", ";", "b", "{", "1", ",", "2", "}", "c", ",", "d">>
         => line = <<"a", ";", "b", "1", "c", ";", "b", "2", "c", ",", "d">>

\* a b{1,2}c,d has been expanded with the comma of the postpend
C31_Witness ==
  /\ pc = "braced" /\ call.old = 1
  /\ call.before = <<"a", " ", "b", "{", "1", ",", "2", "}", "c", ",", "d">>
  /\ line = <<"a", " ", "b", "1", "c", ",", "b", "2", "c", ",", "d">>

\* a;b{1,2}c,d has been expanded with the semicolon of the prepend
C31_Semicolon ==
  /\ pc = "braced" /\ call.old = 1
  /\ call.before = <<"a", ";", "b", "{", "1", ",", "2", "}", "c", ",", "d">>
  /\ line = <<"a", ";", "b", "1", "c", ";", "b", "2", "c", ",", "d">>



----------------------------------------------------------------------------
(* SpecGrow: expand_braces, one call of brace_expansion a step, on lines    *)
(* with one, nested and adjacent brace groups, in a buffer that the line    *)
(* fills and in a buffer with room for every expansion.  call.old counts    *)
(* the calls that returned TRUE, call.before is the line at the start.      *)

\* two groups side by side, a group without a comma before a group, a long
\* prepend
GrowExtra ==
  {<<"{", "a", ",", "b", "}", "{", "c", ",", "d", "}">>,
   <<"{", "a", "}", "x", "{", "b", ",", "c", "}">>,
   <<"p", "p", "p", "p", "{", "a", ",", "b", "}">>}

GrowLines ==
  {BraceLine(parts[1], parts[2], parts[3], parts[4], parts[5]) :
     parts \in BraceParts} \cup GrowExtra

InitGrow ==
  \E txt \in GrowLines : \E cap \in {Len(txt), BraceCap} :
    Is([Start EXCEPT !.pc = "grow", !.max = cap, !.line = txt,
                     !.call = [NoCall EXCEPT !.before = txt]])

\* while (brace_expansion()) ; un_escape( BRACE_ESCAPE )
grow_pass(r) ==
  IF r.rv = 1 /\ ~r.ub
    THEN [r EXCEPT !.call.op = "brace_expansion", !.call.old = @ + 1]
    ELSE [un_escape(r, BRACE_ESCAPE) EXCEPT !.pc = "grown",
                                            !.call.op = "expand_braces"]

GrowPass ==
  /\ pc = "grow"
  /\ Step(grow_pass(brace_expansion([Cur EXCEPT !.bell = FALSE])))

NextGrow == GrowPass

\* the program goes on when it can: in the loop of expand_braces the next
\* call is the only step, so weak fairness of GrowPass says that the program
\* leaves the loop or makes calls for ever
GrowFair == []<>(pc # "grow") \/ []<><<pc = "grow">>_vars

SpecGrow == InitGrow /\ [][NextGrow]_vars /\ GrowFair

\* C32: expand_braces terminates for every line, also for lines with nested
\* or adjacent brace groups and for lines whose expansion does not fit the
\* buffer, and every position it scans is inside the line
C32_Stated == <>(pc = "grown") /\ [](~ub)

\* C32 for the lines whose expansion fits: the scans stay in the line
C32_Room == (max = BraceCap) => ~ub

\* expand_braces comes to an end, by its return or by the fault
C32_Ends == <>(pc \in {"grown", "crashed"})

\* the expansion did not fit: the loop over the items is past the line
C32_Past ==
  /\ ub /\ bell
  /\ call.before = <<"p", "p", "p", "p", "{", "a", ",", "b", "}">>
  /\ max = Len(call.before)

\* two adjacent groups were expanded in three calls
C32_Adjacent ==
  /\ pc = "grown" /\ ~ub /\ call.old = 3
  /\ call.before = <<"{", "a", ",", "b", "}", "{", "c", ",", "d", "}">>
  /\ line = <<"a", "c", " ", "a", "d", " ", "b", "c", " ", "b", "d">>



----------------------------------------------------------------------------
(* SpecFresh: completion keys and other keys in any order.  call.fn is the  *)
(* function of the last key, call.str the function of the key before it    *)
(* and call.op tells that the step called find_files.                       *)

\* the functions that walk the ring, and the other functions of the keys
RingFns == {"Cycle", "CycleBack", "CycleDir", "CycleDirBack"}
OtherFns == {"Ignore", "EndLine"}

\* the directories of the model
FreshDirs == {d \in Dirs : Len(d) = MaxDir}

InitFresh ==
  \E d \in FreshDirs :
    Is([Start EXCEPT !.listing = d,
                     !.option = [DefaultOption EXCEPT !.min_length = CycCap]])

\* the beginning of a name is typed
FreshType ==
  /\ pc = "edit"
  /\ line = <<>>
  /\ \E txt \in {<<"x", " ", "a">>, <<"a">>} :
       Step(edit_done(type_chars(key_fresh(Cur, "Default"), txt, 1),
                      NoIn.freed))

\* what the step of a key starts from, the function of the key before kept
fresh_key(s, fn) == [key_fresh(s, fn) EXCEPT !.call.str = <<s.call.fn>>]

\* a key is read by edit_line and dispatched, as long as the line is short
FreshKey ==
  /\ pc = "edit"
  /\ line # <<>>
  /\ Len(line) <= CycLen
  /\ \E fn \in RingFns \cup OtherFns :
       Step(edit_done(edit_step(fresh_key(Cur, fn), "a", fn, NoIn),
                      NoIn.freed))

NextFresh == CycCall \/ FreshType \/ FreshKey

SpecFresh == InitFresh /\ [][NextFresh]_vars

\* the last key was a key of RingFns, read after another key
RingStep == pc = "edit" /\ call.fn \in RingFns /\ call.str # <<>>

\* C33: a Cycle, CycleBack, CycleDir or CycleDirBack step goes on walking
\* the ring that was built before only if the step dispatched just before
\* it was a completion step; after any other step, an ignored key too, the
\* next completion step searches the candidates afresh
C33_Stated ==
  RingStep =>
    /\ call.op # "find_files" => call.str[1] \in RingFns
    /\ call.str[1] \notin RingFns => call.op = "find_files"

\* Cycle after an ignored key that followed a Cycle with several candidates:
\* the candidates were searched again and the first one is in the line
C33_Witness ==
  /\ RingStep /\ call.fn = "Cycle" /\ call.str = <<"Ignore">>
  /\ call.op = "find_files"
  /\ fname_cnt > 1 /\ compl = 2
  /\ Len(call.before) > 3

\* Cycle after Cycle went on to the second name of the ring
C33_Walk ==
  /\ RingStep /\ call.fn = "Cycle" /\ call.str = <<"Cycle">>
  /\ call.op # "find_files"
  /\ fnp = 2

\* CycleDir after Cycle searched afresh, for directories
C33_Dir ==
  /\ RingStep /\ call.fn = "CycleDir" /\ call.str = <<"Cycle">>
  /\ call.op = "find_files"



----------------------------------------------------------------------------
(* SpecReplay: a line is typed, a keyboard macro is recorded on the first   *)
(* key, the line and the cursor are put back as they were when the          *)
(* recording began, and the macro is played.  call.op is the phase,         *)
(* call.before and call.old the line and the cursor at the start of the     *)
(* recording, call.str and call.pos those at its end.                       *)

\* the buffer of the request: max is RepCap - 2
RepCap == 5

\* the keys pressed while recording: a character, DelLeft and CharLeft
RepKeys == {0, 6, 7}

InitReplay ==
  \E o \in {0, 1} :
    Is([Start EXCEPT !.option = [DefaultOption EXCEPT !.min_length = RepCap,
                                                      !.overwrite = o]])

RepCall == pc = "idle" /\ call.op = "none" /\ Call(RepCap, TRUE)

\* the step of a key, with what the harness remembers
rep_key(s, key, ch, tkey) ==
  [edit_key(Fresh(s, 0, <<>>), key, ch, [NoIn EXCEPT !.tkey = tkey])
   EXCEPT !.call = s.call]

\* before the recording: x is typed or the cursor moves left
RepType ==
  /\ pc = "edit" /\ call.op = "edit_line" /\ Len(line) < RepCap - 2
  /\ \E key \in {0, 7} :
       Step(edit_done(rep_key(Cur, key, "x", 0), NoIn.freed))

\* Record is pressed, then the first key
rep_begin(r, s) ==
  [r EXCEPT !.call.op = "recording", !.call.before = s.line,
            !.call.old = s.pos]

RepBegin ==
  /\ pc = "edit" /\ call.op = "edit_line"
  /\ Step(edit_done(rep_begin(rep_key(Cur, 3, "a", 1), Cur), NoIn.freed))

\* a key is pressed while recording
RepKey ==
  /\ pc = "edit" /\ call.op = "recording" /\ recording
  /\ MacroLen(rec_mac) < MaxRec
  /\ \E key \in RepKeys :
       Step(edit_done(rep_key(Cur, key, "a", 0), NoIn.freed))

\* Record is pressed again: the recording is over
rep_end(r) ==
  [r EXCEPT !.call.op = "recorded", !.call.str = r.line, !.call.pos = r.pos]

RepEnd ==
  /\ pc = "edit" /\ call.op = "recording" /\ recording
  /\ Step(edit_done(rep_end(rep_key(Cur, 3, "a", 0)), NoIn.freed))

\* the line and the cursor are made what they were when the recording began
RepRestore ==
  /\ pc = "edit" /\ call.op = "recorded"
  /\ Set([Cur EXCEPT !.line = call.before, !.pos = call.old,
                     !.call.op = "restored"])

\* the first key is pressed
rep_play(r) == [r EXCEPT !.call.op = "playing"]

RepPlay ==
  /\ pc = "edit" /\ call.op = "restored"
  /\ Step(edit_done(rep_play(rep_key(Cur, 1, "a", 0)), NoIn.freed))

\* the next step of the macro is dispatched
RepStep ==
  /\ pc = "edit" /\ call.op = "playing" /\ mac # 0
  /\ \E junk \in {[ch |-> "NUL", fn |-> "Ignore"]} :
       Step(edit_done([edit_play(Fresh(Cur, 0, <<>>), junk, NoIn)
                       EXCEPT !.call = call],
                      NoIn.freed))

NextReplay ==
  RepCall \/ RepType \/ RepBegin \/ RepKey \/ RepEnd \/ RepRestore
    \/ RepPlay \/ RepStep

SpecReplay == InitReplay /\ [][NextReplay]_vars

\* the macro has been played to its end
Replayed == pc = "edit" /\ call.op = "playing" /\ mac = 0

\* C34: a recorded keyboard macro that is played from the buffer, the
\* cursor, the mode of insertion and the history of the start of its
\* recording leaves the buffer and the cursor that the keys themselves left,
\* also when a DelLeft after a character took the step of the character
\* away instead of being recorded
C34_Stated == Replayed => line = call.str /\ pos = call.pos

\* C34 in insert mode when every character that was typed found room
C34_Insert ==
  (Replayed /\ ovr = 0 /\ Len(call.before) + MaxRec <= max)
    => line = call.str /\ pos = call.pos

\* in overwrite mode a was typed over x and deleted: the keys left an empty
\* line, the macro has no step and the playback leaves x
C34_Over ==
  /\ Replayed /\ ovr = 1
  /\ call.before = <<"x">> /\ call.old = 0
  /\ call.str = <<>> /\ line = <<"x">>
  /\ macro_head = <<>>

\* a macro of two steps was played and left what the keys left
C34_Same ==
  /\ Replayed /\ line = call.str /\ pos = call.pos
  /\ call.str # call.before
  /\ macro_head # <<>> /\ macro_head[1].len = 2



----------------------------------------------------------------------------
(* SpecRing: the lines of SpecDelh and rsth are typed and submitted, and    *)
(* delh and rsth are read from command files.  The history is the sequence  *)
(* of the entries linked between history.next and history.prev; the links   *)
(* next and prev are the successor and the predecessor in the sequence.     *)

RSTH == <<"r", "s", "t", "h">>

RingLines == DelhLines \cup {RSTH}

RingCall == Intact /\ Call(DelhCap, TRUE)

\* a line is typed and submitted with Enter
RingKey ==
  /\ pc = "edit"
  /\ Intact
  /\ \E txt \in RingLines :
       Step(edit_done(edit_step(type_chars(Fresh(Cur, 0, txt), txt, 1),
                                "\r", "Enter", NoIn),
                      NoIn.freed))

\* CMDkey.exe names a command file of one line
RingFile == Intact /\ \E txt \in {DELH_X, RSTH, MEM_Y} : CmdFile(<<txt>>)

NextRing == RingCall \/ RingKey \/ Expand \/ RingFile

SpecRing == InitDelh /\ [][NextRing]_vars

\* C35: after any sequence of submissions, lines of command files, delh and
\* rsth commands the counter histsize is the number of entries linked in
\* the ring and not negative, and the sentinel has not been unlinked or
\* freed (with the entries kept as a sequence the links next and prev are
\* inverse by construction)
C35_Stated == histsize = Len(history) /\ histsize >= 0

\* C35 for the steps that run no delh command
C35_Others ==
  [][(histsize = Len(history) /\ call'.cmd # DELH_X)
       => histsize' = Len(history') /\ histsize' >= 0]_vars

\* C35 for a delh line that is the most recent entry of the history
C35_Stored ==
  [][(/\ histsize = Len(history) /\ call'.cmd = DELH_X
      /\ history # <<>> /\ history[Len(history)] = DELH_X)
       => histsize' = Len(history') /\ histsize' >= 0]_vars

\* delh x was read from a command file while the history was empty: the
\* sentinel was unlinked and freed and the counter is -1
C35_Freed ==
  /\ call.cmd = DELH_X /\ ~call.kbd
  /\ history = <<>> /\ histsize = -1

\* rsth emptied a history of two entries
C35_Reset ==
  /\ call.cmd = RSTH /\ history = <<>> /\ histsize = 0



\* C36: every playback of a keyboard macro ends: the playback position is 0
\* whenever no macro is playing, so a playback starts at the first step;
\* while a macro of n steps is playing the position is less than n, and a
\* cycle either moves it on by one step or ends the playback, so that the
\* keyboard is read again after at most n cycles
C36_Stated ==
  /\ [](pc = "edit" => IF mac = 0 THEN mac_pos = 0
                       ELSE mac_pos < Playing.len)
  /\ [][(mac # 0 /\ pc = "edit" /\ pc' = "edit") =>
          \/ mac' = 0
          \/ mac' = mac /\ mac_pos' = mac_pos + 1]_vars

\* C36 for the cycles that do not dispatch a recorded step Play: they leave
\* the position at 0 when they end the playback, and move it by one step
\* within the macro when they do not
C36_Others ==
  [][(/\ pc = "edit" /\ pc' = "edit"
      /\ IF mac = 0 THEN mac_pos = 0 ELSE mac_pos < Playing.len
      /\ ~(mac # 0 /\ call'.fn = "Play")) =>
          /\ IF mac' = 0 THEN mac_pos' = 0 ELSE mac_pos' < Playing'.len
          /\ (mac # 0 /\ mac' # 0) => mac' = mac /\ mac_pos' = mac_pos + 1]_vars

\* a played step Play has ended a playback and left the position behind
C36_Stale == pc = "edit" /\ mac = 0 /\ mac_pos > 0

\* a playback that started at the position left behind is past the steps of
\* its macro: it does not reach the last step
C36_Endless == pc = "edit" /\ mac # 0 /\ mac_pos >= Playing.len



----------------------------------------------------------------------------
(* SpecStack: a macro m of three lines is run whose first or last line      *)
(* deletes, resets or redefines it, or deletes another macro.               *)

DEFM_M_X == <<"d", "e", "f", "m", " ", "m", " ", "x">>
DEFS_M_X == <<"d", "e", "f", "s", " ", "m", " ", "x">>
DELM_N   == <<"d", "e", "l", "m", " ", "n">>

\* the lines that release the lines of m, and the line that releases others
StackCmds == {DELM_M, RSTM, DEFM_M_X, DEFS_M_X}

StackBodies ==
  {<<c, <<"x">>, <<"y">>>> : c \in StackCmds \cup {DELM_N}}
    \cup {<<<<"x">>, <<"y">>, c>> : c \in StackCmds}

MacOther == [name |-> <<"n">>, lines |-> <<<<"x">>>>]

InitStack ==
  \E body \in StackBodies :
    Is([Start EXCEPT !.mac_head = <<[name |-> <<"m">>, lines |-> body],
                                    MacOther>>,
                     !.option = [DefaultOption EXCEPT !.histsize = MaxHist]])

StackCall == Call(DefCap, TRUE)

StackKey == \E txt \in {RUN_M, PLAIN} : KeyLine(txt)

NextStack == StackCall \/ StackKey \/ Expand

SpecStack == InitStack /\ [][NextStack]_vars

\* C37: every frame of the macro stack walks lines that have not been
\* released: the macro it belongs to is still defined with those lines
C37_Stated == \A i \in 1..Len(macro_stk) : macro_stk[i].live

\* the macros of the frames on the stack
Owners(stk) == {stk[i].owner : i \in 1..Len(stk)}

\* the definition of the macro called own, <<>> when there is none
Defined(list, own) == SelectSeq(list, LAMBDA d : d.name = own)

\* C37 for the steps that leave the macros of the remaining frames as they
\* were defined: deleting another macro, or the own macro from its last line
C37_Others ==
  [][((\A i \in 1..Len(macro_stk) : macro_stk[i].live)
        /\ \A own \in Owners(macro_stk') :
             /\ Defined(mac_head', own) # <<>>
             /\ own \in Owners(macro_stk)
                  => Defined(mac_head', own) = Defined(mac_head, own))
       => \A i \in 1..Len(macro_stk') : macro_stk'[i].live]_vars

\* the first line of m has deleted m: the frame is left on the stack with
\* the lines x and y released
C37_Dangling ==
  /\ call.cmd = DELM_M
  /\ Len(macro_stk) = 1 /\ ~macro_stk[1].live
  /\ Defined(mac_head, <<"m">>) = <<>>

\* the first line of m has redefined m
C37_Redefined ==
  /\ call.cmd = DEFM_M_X
  /\ Len(macro_stk) = 1 /\ ~macro_stk[1].live
  /\ Defined(mac_head, <<"m">>) = <<[name |-> <<"m">>, lines |-> <<<<"x">>>>]>>

\* the last line of m has deleted m: no frame was left
C37_Last ==
  /\ call.cmd = DELM_M /\ macro_stk = <<>>
  /\ Defined(mac_head, <<"m">>) = <<>>

\* the first line of m has deleted n: the frame of m is intact
C37_Apart ==
  /\ call.cmd = DELM_N
  /\ Len(macro_stk) = 1 /\ macro_stk[1].live
  /\ Defined(mac_head, <<"n">>) = <<>>


\* the first line of m has reset the macros
C37_Reset ==
  /\ call.cmd = RSTM
  /\ Len(macro_stk) = 1 /\ ~macro_stk[1].live /\ mac_head = <<>>

\* the first line of m has defined the symbol m
C37_Symbol ==
  /\ call.cmd = DEFS_M_X
  /\ Len(macro_stk) = 1 /\ ~macro_stk[1].live
  /\ Defined(sym_head, <<"m">>) # <<>>



----------------------------------------------------------------------------
(* SpecList: list commands are typed with and without a redirection to a    *)
(* file or a pipe.  _wfopen and _wpopen may fail, the runtime may reject    *)
(* the pclose of a stream that is no pipe, and the local end of redirect    *)
(* holds what the stack held.                                               *)

ListCap == 9

\* what the unassigned local end may hold: a position inside the shortest
\* line and one past the longest
ListJunk == {0, ListCap}

ListWords == {<<"l", "s", "t", c>> : c \in {"a", "h", "k", "m", "s"}}

ListTails ==
  {<<>>, <<" ", "|", "c">>, <<" ", ">", "f">>, <<" ", ">", ">", "f">>,
   <<" ", "x", ">", "f">>, <<" ", ">">>}

ListLines == {w \o tl : w \in ListWords, tl \in ListTails}

InitList ==
  Is([Start EXCEPT !.option = [DefaultOption EXCEPT !.min_length = ListCap],
                   !.mac_head = <<[name |-> <<"x">>, lines |-> <<<<"y">>>>]>>])

ListCall == Call(ListCap, TRUE)

ListKey == \E txt \in ListLines : KeyLine(txt)

\* one iteration of the inner loop of MyReadConsoleW: the list command runs
ListExpand ==
  /\ pc = "expand"
  /\ \E freed \in {NoIn.freed} : \E junk \in ListJunk :
       \E kinds \in SUBSET {"stream", "reject"} :
         Step(read_expand([Fresh(Cur, 0, <<>>) EXCEPT !.junk = junk,
                                                     !.fail = kinds],
                          freed))

NextList == ListCall \/ ListKey \/ ListExpand

SpecList == InitList /\ [][NextList]_vars

\* C38: after a list command the stream that end_redirect closed is the
\* file or the pipe that the redirection of this command opened, none when
\* it opened none, and standard output is open
C38_Stated ==
  /\ lst.closed = lst.opened
  /\ lst.open = "none"
  /\ lst.std = "open"

\* C38 for the commands run while lstpipe is not left set by an earlier
\* command, that is after a command that was not piped: they close what
\* they opened and leave standard output alone
C38_Files ==
  [][~lst.pipe =>
       /\ lst'.closed = lst'.opened
       /\ lst'.open = "none"
       /\ lst'.std = lst.std]_vars

\* a piped command closes its pipe, whatever ran before
C38_Pipes ==
  [][lst'.opened = "pipe" => lst'.closed = "pipe" /\ lst'.by = "pclose"]_vars

\* lstm after lsth |c: standard output was passed to pclose
C38_Closed ==
  /\ call.cmd = <<"l", "s", "t", "m">>
  /\ lst.by = "pclose" /\ lst.closed = "stdout" /\ lst.opened = "none"

\* a command that wrote to a file closed the file
C38_File ==
  /\ call.cmd = <<"l", "s", "t", "a", " ", ">", "f">>
  /\ lst.opened = "file" /\ lst.closed = "file" /\ lst.by = "fclose"

\* a pipe that could not be started leaves lstpipe set
C38_Failed ==
  /\ lst.out = "null" /\ lst.pipe /\ lst.opened = "none"



----------------------------------------------------------------------------
(* SpecAssoc: associations for .a and .d are defined, redefined and deleted *)
(* with defa while associations for .b and .c exist.                        *)

DEFA_A_X  == <<"d", "e", "f", "a", " ", ".", "a", " ", "x">>
DEFA_A_B  == <<"d", "e", "f", "a", " ", ".", "a", " ", ".", "b">>
DEFA_A    == <<"d", "e", "f", "a", " ", ".", "a">>
DEFA_D_XY == <<"d", "e", "f", "a", " ", ".", "d", " ", "x", " ", "y">>
DEFA_D_WC == <<"d", "e", "f", "a", " ", ".", "d", " ", "w", " ", ".", "c">>
DEFA_D_BC == <<"d", "e", "f", "a", " ", ".", "d", " ", ".", "b", ".", "c">>

\* the buffer of the requests
AssocCap == 14

AssocLines == {DEFA_A_X, DEFA_A_B, DEFA_A, DEFA_D_XY, DEFA_D_WC, DEFA_D_BC}

\* the associations that exist at the start
AssocLists ==
  {<<[name |-> <<".", "b">>, lines |-> <<<<"y">>>>]>>,
   <<[name |-> <<".", "b", ".", "c">>, lines |-> <<<<"y">>>>]>>,
   <<[name |-> <<".", "b">>, lines |-> <<<<"y">>>>],
     [name |-> <<".", "c">>, lines |-> <<<<"x">>>>]>>}

InitAssoc ==
  \E assocs \in AssocLists :
    Is([Start EXCEPT !.assoc_head = assocs,
                     !.option = [DefaultOption EXCEPT !.min_length = AssocCap]])

AssocCall == Call(AssocCap, TRUE)

AssocKey == \E txt \in AssocLines : KeyLine(txt)

NextAssoc == AssocCall \/ AssocKey \/ Expand

SpecAssoc == InitAssoc /\ [][NextAssoc]_vars

\* the extension that the command defa of txt names
DefaExt(txt) == Sub(txt, 5, ScanTo(txt, 5, "blank", TRUE))

\* the text that it associates, <<>> when it has none
DefaText(txt) ==
  Sub(txt, ScanTo(txt, ScanTo(txt, 5, "blank", TRUE), "blank", FALSE),
      Len(txt))

\* the associations of the list whose names do not hold the extension
OtherAssocs(list, ext) ==
  {list[i] : i \in {j \in 1..Len(list) : ~match_ext(ext, list[j].name)}}

\* the step runs a command defa
DefaRuns ==
  /\ pc = "expand"
  /\ Len(call'.cmd) > 5
  /\ Sub(call'.cmd, 0, 4) = <<"d", "e", "f", "a">>

\* C39: defa <ext> <text> changes only the association for <ext>: every
\* association whose name does not hold <ext> is after the command what it
\* was before, with its names and its text, whatever the words of <text>
C39_Stated ==
  [][DefaRuns => OtherAssocs(assoc_head', DefaExt(call'.cmd))
                   = OtherAssocs(assoc_head, DefaExt(call'.cmd))]_vars

\* the words of txt from position p on
RECURSIVE WordsFrom(_, _)
WordsFrom(txt, p) ==
  IF p >= Len(txt) THEN {}
  ELSE {Sub(txt, p, ScanTo(txt, p, "blank", TRUE))}
         \cup WordsFrom(txt, ScanTo(txt, ScanTo(txt, p, "blank", TRUE),
                                    "blank", FALSE))

\* no word of the text is the name of an association or an extension of one
Unrelated(list, txt) ==
  \A w \in WordsFrom(DefaText(txt), 0) : \A i \in 1..Len(list) :
    /\ ~match_ext(w, list[i].name)
    /\ ~(Len(w) = Len(list[i].name) /\ EqNoCase(list[i].name, w, Len(w)))

\* C39 for a text none of whose words is the name of an association or an
\* extension of one
C39_Plain ==
  [][(DefaRuns /\ Unrelated(assoc_head, call'.cmd))
       => /\ OtherAssocs(assoc_head', DefaExt(call'.cmd))
               = OtherAssocs(assoc_head, DefaExt(call'.cmd))
          /\ DefaText(call'.cmd) # <<>> =>
               assoc_head'[1] = [name |-> DefaExt(call'.cmd),
                                 lines |-> <<DefaText(call'.cmd)>>]]_vars

\* defa .a .b has associated .b with .a and no association holds .b
C39_Lost ==
  /\ call.cmd = DEFA_A_B
  /\ assoc_head[1] = [name |-> <<".", "a">>, lines |-> <<<<".", "b">>>>]
  /\ \A i \in 1..Len(assoc_head) : ~match_ext(<<".", "b">>, assoc_head[i].name)

\* defa .d w .c has taken .c out of the names .b.c
C39_Cut ==
  /\ call.cmd = DEFA_D_WC
  /\ \E i \in 1..Len(assoc_head) : assoc_head[i].name = <<".", "b">>
  /\ \A i \in 1..Len(assoc_head) : ~match_ext(<<".", "c">>, assoc_head[i].name)

\* defa .d x y has defined .d beside the others
C39_Added ==
  /\ call.cmd = DEFA_D_XY
  /\ assoc_head[1] = [name |-> <<".", "d">>, lines |-> <<<<"x", " ", "y">>>>]
  /\ \E i \in 1..Len(assoc_head) : assoc_head[i].name = <<".", "b", ".", "c">>



----------------------------------------------------------------------------
(* SpecQueue: lines with and without a command separator are typed while a  *)
(* macro is defined whose second line holds a command separator, or a macro *)
(* of two plain lines, and Control+Break is received at any wait.           *)

QueueLines == {RUN_M, RUN_MB, SEP_X_B, PLAIN}

InitQueue ==
  \E dm \in {MacSep, [name |-> <<"m">>, lines |-> <<<<"x">>, <<"y">>>>]} :
    Is([Start EXCEPT !.mac_head = <<dm>>])

QueueCall == Call(DefCap, TRUE)

\* the user types a line and Enter while no Control+Break waits
QueueLine ==
  /\ check_break <= 1
  /\ \E txt \in QueueLines : KeyLine(txt)

NextQueue == QueueCall \/ QueueLine \/ CtrlBreak \/ BreakKey \/ Expand

SpecQueue == InitQueue /\ [][NextQueue]_vars

\* a Control+Break waits to be looked at: the request that begins looks at
\* any event counted, the loops of a request at one counted since it began
BreakSeen == IF pc = "idle" THEN check_break > 0 ELSE check_break > 1

\* C40: a queued text stays queued as it is until a step delivers it as the
\* next line, once, or a Control+Break that the step takes notice of
\* discards it; no step that splits another line replaces or drops it
C40_Stated ==
  [][~mcmd.null =>
       \/ mcmd' = mcmd
       \/ call'.mc = <<mcmd.txt>>
       \/ BreakSeen /\ mcmd'.null]_vars

\* C40 for the steps that fetch no line of a macro
C40_Others ==
  [][(~mcmd.null /\ call'.op # "get_macro_line") =>
       \/ mcmd' = mcmd
       \/ call'.mc = <<mcmd.txt>> /\ mcmd'.null /\ line' = mcmd.txt
       \/ BreakSeen /\ mcmd'.null /\ call'.mc = <<>>]_vars

\* the second line of m was fetched and split while b was queued: z is
\* queued and b was not delivered
C40_Replaced ==
  /\ call.op = "get_macro_line" /\ call.mc = <<>>
  /\ mcmd = [txt |-> <<"z">>, null |-> FALSE]
  /\ line = <<"y">>

\* b was delivered after the lines of the macro of two plain lines
C40_Delivered ==
  /\ call.op = "mcmd" /\ call.mc = <<<<"b">>>>
  /\ line = <<"b">> /\ mcmd.null /\ macro_stk = <<>>

============================================================================
